---- MODULE Spec2Model ----
(***************************************************************************)
(* Model of the retry/resilience and webhook-reconciliation engine of the  *)
(* PhonePe payment provider for Medusa.                                    *)
(*                                                                         *)
(* The repository holds two variants of the provider base class:           *)
(*   "core"    src/src/core/phonepe-base.ts  (recursive executeWithRetry,  *)
(*             constructWebhookEvent with legacy fallback)                 *)
(*   "part002" src/unnamed/part_002:730-1918 (loop executeWithRetry,       *)
(*             status cache, constructWebhookEvent with header check)      *)
(* Both are modelled; the variant is an input of the operation.            *)
(***************************************************************************)
EXTENDS Integers, Sequences, FiniteSets, TLC

VARIABLES
  \* ---- executeWithRetry ----
  rpc,               \* position of the run: "idle", "call", "sleep", "done"
  rimpl,             \* variant of the source that runs
  maxRetries,        \* parameter maxRetries
  baseDelay,         \* parameter baseDelay (ms)
  currentAttempt,    \* currentAttempt (core) / attempt (part002)
  calls,             \* number of invocations of apiCall
  classified,        \* number of invocations of handlePhonePeError
  delays,            \* the delays slept so far, in ms * 1000
  lastError,         \* the error of the last call, NoError when it succeeded
  retryableFailures, \* failed calls whose error carries a network / rate-limit mark
  otherFailures,     \* failed calls with any other error
  routcome,          \* "pending", "returned", "raised"
  rresult            \* the value returned

retryVars == <<rpc, rimpl, maxRetries, baseDelay, currentAttempt, calls, classified,
               delays, lastError, retryableFailures, otherFailures, routcome, rresult>>

\* ---- constructWebhookEvent ----
VARIABLES
  whpc,       \* "idle", "done"
  whimpl,     \* variant of the source that runs
  whHeader,   \* authorizationHeader
  whBody,     \* callbackBody
  whOptions,  \* PhonePeOptions that matter here
  whResult,   \* what constructWebhookEvent did and returned
  whAction    \* what getWebhookActionAndData did and returned

whVars == <<whpc, whimpl, whHeader, whBody, whOptions, whResult, whAction>>

\* ---- status cache (getOrderStatusWithCache, part002) ----
VARIABLES
  now,                     \* Date.now(), ms
  statusCache,             \* statusCache: merchantOrderId -> entry
  inFlightStatusRequests,  \* inFlightStatusRequests: key -> request (0: no entry)
  requests,                \* the gateway getOrderStatus calls made so far
  statusCalls              \* the getOrderStatusWithCache calls made so far

cacheVars == <<now, statusCache, inFlightStatusRequests, requests, statusCalls>>

\* ---- handlePaymentHook and the host platform it drives ----
VARIABLES
  deliveries,          \* the handlePaymentHook runs: position, inputs, locals
  orders,              \* host: committed order of each cart
  idempotencyKeys,     \* host: idempotency record of ("/phonepe/hooks", event id)
  paymentCollections,  \* host: the payment of each payment collection
  hostCalls            \* committed completions, capture calls made

hookVars == <<deliveries, orders, idempotencyKeys, paymentCollections, hostCalls>>

\* ---- the provider operations (initiatePayment, getPaymentStatus, ...) ----
VARIABLES
  ppc,            \* "idle", "done"
  pimpl,          \* variant of the source that runs
  pop,            \* the operation that ran
  pinput,         \* its input
  sequenceCount,  \* PhonePeBase.sequenceCount (static, core)
  gatewayCall,    \* the request handed to the gateway client, if any
  enteredRetry,   \* executeWithRetry was entered
  presult         \* what the operation returned or threw

payVars == <<ppc, pimpl, pop, pinput, sequenceCount, gatewayCall, enteredRetry, presult>>

\* ---- the OAuth token cache of the axios wrapper ----
VARIABLES
  tokenCache,     \* tokenCache: {token, expiresAt} or none
  tokenNow,       \* Date.now(), in ticks
  tokenCallers,   \* the generateOAuthToken calls: position and token received
  tokenRequests,  \* the POSTs to /v1/oauth/token: outstanding or answered
  tokenOptions    \* the wrapper exists; options.tokenCacheEnabled is not false

tokenVars == <<tokenCache, tokenNow, tokenCallers, tokenRequests, tokenOptions>>

\* ---- overlapping initiatePayment / updatePayment calls of one process ----
VARIABLES
  paymentCalls    \* the calls so far: input, merchantOrderId, position

idVars == <<paymentCalls>>

\* ---- the conversions of amounts to minor units ----
VARIABLES
  unitCalls       \* the getSmallestUnit calls so far: amount, currency, result

unitVars == <<unitCalls>>

\* What an action of one part leaves alone
retryOnly == UNCHANGED <<whVars, cacheVars, hookVars, payVars, tokenVars, idVars, unitVars>>
webhookOnly == UNCHANGED <<retryVars, cacheVars, hookVars, payVars, tokenVars, idVars, unitVars>>
cacheOnly == UNCHANGED <<retryVars, whVars, hookVars, payVars, tokenVars, idVars, unitVars>>
hookOnly == UNCHANGED <<retryVars, whVars, cacheVars, payVars, tokenVars, idVars, unitVars>>
payOnly == UNCHANGED <<retryVars, whVars, cacheVars, hookVars, tokenVars, idVars, unitVars>>
tokenOnly == UNCHANGED <<retryVars, whVars, cacheVars, hookVars, payVars, idVars, unitVars>>
idOnly == UNCHANGED <<retryVars, whVars, cacheVars, hookVars, tokenVars, unitVars>>
unitOnly ==
  UNCHANGED <<retryVars, whVars, cacheVars, hookVars, payVars, tokenVars, idVars>>

Impls == {"core", "part002"}

\* ------------------------------------------------------------------------
\* Bounds of the model
MaxRetriesBound == 3
MaxStatusCalls == 3
MaxTicks == 2
NumDeliveries == 2
MaxSequenceCount == 3
NumTokenCallers == 2
MaxTokenRequests == 2
MaxTokenTicks == 1
MaxPaymentCalls == 3

\* Program constants
DefaultMaxRetries == 3
DefaultBaseDelay == 1000
STATUS_CACHE_TTL_MS == 5000

\* ------------------------------------------------------------------------
\* Error values thrown by the gateway call.  status 0 stands for an error
\* without a status field (undefined >= 500 is false, as is 0 >= 500).
NetworkCodes == {"ECONNREFUSED", "ETIMEDOUT", "ENOTFOUND"}
ErrorCodes == NetworkCodes \cup {"RATE_LIMIT_ERROR", "BAD_REQUEST", "none"}
ErrorStatuses == {0, 400, 429, 500, 599, 600}
ErrorBodies == {"none", "body"}
Errors == [code : ErrorCodes, status : ErrorStatuses,
           data : ErrorBodies, response : ErrorBodies]
NoError == [code |-> "ok", status |-> 0, data |-> "none", response |-> "none"]

\* Values executeWithRetry can return
SuccessValue == [value |-> "success"]
Indeterminate(why) == [indeterminate_due_to |-> why]
ErrorData(field) == [errorBody |-> field]
NoData == [none |-> TRUE]

\* The classifier with one test changed
handlePhonePeError_retries5xx(error) ==
  IF error.code \in NetworkCodes THEN [retry |-> TRUE, data |-> NoData]
  ELSE IF error.status = 429 \/ error.code = "RATE_LIMIT_ERROR"
    THEN [retry |-> TRUE, data |-> NoData]
  ELSE IF error.status >= 500 /\ error.status < 600
    THEN [retry |-> TRUE, data |-> NoData]
  ELSE IF error.data # "none" \/ error.response # "none"
    THEN [retry |-> FALSE,
          data |-> ErrorData(IF error.data # "none" THEN "data" ELSE "response")]
  ELSE [retry |-> FALSE, data |-> Indeterminate("unknown_error")]

handlePhonePeError_misses500(error) ==
  IF error.code \in NetworkCodes THEN [retry |-> TRUE, data |-> NoData]
  ELSE IF error.status = 429 \/ error.code = "RATE_LIMIT_ERROR"
    THEN [retry |-> TRUE, data |-> NoData]
  ELSE IF error.status > 500 /\ error.status < 600
    THEN [retry |-> FALSE, data |-> Indeterminate("phonepe_server_error")]
  ELSE IF error.data # "none" \/ error.response # "none"
    THEN [retry |-> FALSE,
          data |-> ErrorData(IF error.data # "none" THEN "data" ELSE "response")]
  ELSE [retry |-> FALSE, data |-> Indeterminate("unknown_error")]

\* The classifier with the body row before the server-error row
handlePhonePeError_bodyFirst(error) ==
  IF error.code \in NetworkCodes THEN [retry |-> TRUE, data |-> NoData]
  ELSE IF error.status = 429 \/ error.code = "RATE_LIMIT_ERROR"
    THEN [retry |-> TRUE, data |-> NoData]
  ELSE IF error.data # "none" \/ error.response # "none"
    THEN [retry |-> FALSE,
          data |-> ErrorData(IF error.data # "none" THEN "data" ELSE "response")]
  ELSE IF error.status >= 500 /\ error.status < 600
    THEN [retry |-> FALSE, data |-> Indeterminate("phonepe_server_error")]
  ELSE [retry |-> FALSE, data |-> Indeterminate("unknown_error")]

\* handlePhonePeError: the same text in both variants
handlePhonePeError(error) ==
  IF error.code \in NetworkCodes THEN [retry |-> TRUE, data |-> NoData]
  ELSE IF error.status = 429 \/ error.code = "RATE_LIMIT_ERROR"
    THEN [retry |-> TRUE, data |-> NoData]
  ELSE IF error.status >= 500 /\ error.status < 600
    THEN [retry |-> FALSE, data |-> Indeterminate("phonepe_server_error")]
  ELSE IF error.data # "none" \/ error.response # "none"
    THEN [retry |-> FALSE,
          data |-> ErrorData(IF error.data # "none" THEN "data" ELSE "response")]
  ELSE [retry |-> FALSE, data |-> Indeterminate("unknown_error")]

\* The catch blocks with one test changed
executeWithRetryCatch_part002_early(handledError, attempt, max) ==
  IF ~handledError.retry THEN "return"
  ELSE IF attempt + 1 >= max THEN "throw"
  ELSE "retry"

executeWithRetryCatch_core_throws(handledError, attempt, max) ==
  IF ~handledError.retry THEN "throw"
  ELSE IF handledError.retry /\ attempt <= max THEN "retry"
  ELSE "throw"

\* The catch block of executeWithRetry, variant core (recursive)
executeWithRetryCatch_core(handledError, attempt, max) ==
  IF ~handledError.retry THEN "return"
  ELSE IF handledError.retry /\ attempt <= max THEN "retry"
  ELSE "throw"

\* The catch block of executeWithRetry, variant part002 (loop)
executeWithRetryCatch_part002(handledError, attempt, max) ==
  IF ~handledError.retry THEN "return"
  ELSE IF attempt >= max THEN "throw"
  ELSE "retry"

executeWithRetryCatch(impl, handledError, attempt, max) ==
  IF impl = "core" THEN executeWithRetryCatch_core(handledError, attempt, max)
  ELSE executeWithRetryCatch_part002(handledError, attempt, max)

\* 2^n
RECURSIVE Pow2(_)
Pow2(n) == IF n <= 0 THEN 1 ELSE 2 * Pow2(n - 1)

\* 1000 * (0.5 + Math.random() * 0.5), Math.random() in [0, 1)
JitterPermille == {500, 750, 999}

\* The delay without the exponential factor
backoffDelay_constant(base, attempt, jitter) == base * jitter

\* baseDelay * 2^(attempt-1) * (0.5 + random*0.5), in ms * 1000
backoffDelay(base, attempt, jitter) == base * Pow2(attempt - 1) * jitter

\* An error the specification's first two rows call retryable
CarriesRetryMark(error) ==
  \/ error.code \in NetworkCodes
  \/ error.code = "RATE_LIMIT_ERROR"
  \/ error.status = 429

RetryInit ==
  /\ rpc = "idle"
  /\ rimpl = "core"
  /\ maxRetries = DefaultMaxRetries
  /\ baseDelay = DefaultBaseDelay
  /\ currentAttempt = 1
  /\ calls = 0
  /\ classified = 0
  /\ delays = <<>>
  /\ lastError = NoError
  /\ retryableFailures = 0
  /\ otherFailures = 0
  /\ routcome = "pending"
  /\ rresult = NoData

\* executeWithRetry(apiCall, maxRetries, baseDelay) is entered
executeWithRetryBegin ==
  /\ retryOnly
  /\ rpc = "idle"
  /\ \E impl \in Impls, m \in 1..MaxRetriesBound, b \in {1, DefaultBaseDelay} :
       /\ rimpl' = impl
       /\ maxRetries' = m
       /\ baseDelay' = b
  /\ rpc' = "call"
  /\ UNCHANGED <<currentAttempt, calls, classified, delays, lastError,
                 retryableFailures, otherFailures, routcome, rresult>>

\* await apiCall() resolves
executeWithRetryCallOk ==
  /\ retryOnly
  /\ rpc = "call"
  /\ calls' = calls + 1
  /\ lastError' = NoError
  /\ routcome' = "returned"
  /\ rresult' = SuccessValue
  /\ rpc' = "done"
  /\ UNCHANGED <<rimpl, maxRetries, baseDelay, currentAttempt, classified, delays,
                 retryableFailures, otherFailures>>

\* await apiCall() rejects with error: the catch block
executeWithRetryCallFails ==
  /\ retryOnly
  /\ rpc = "call"
  /\ \E error \in Errors :
       LET handledError == handlePhonePeError(error)
           decision == executeWithRetryCatch(rimpl, handledError, currentAttempt, maxRetries)
       IN /\ calls' = calls + 1
          /\ classified' = classified + 1
          /\ lastError' = error
          /\ retryableFailures' = retryableFailures + (IF CarriesRetryMark(error) THEN 1 ELSE 0)
          /\ otherFailures' = otherFailures + (IF CarriesRetryMark(error) THEN 0 ELSE 1)
          /\ CASE decision = "return" ->
                    /\ routcome' = "returned"
                    /\ rresult' = handledError.data
                    /\ rpc' = "done"
               [] decision = "throw" ->
                    /\ routcome' = "raised"
                    /\ rresult' = NoData
                    /\ rpc' = "done"
               [] OTHER ->
                    /\ routcome' = routcome
                    /\ rresult' = rresult
                    /\ rpc' = "sleep"
  /\ UNCHANGED <<rimpl, maxRetries, baseDelay, currentAttempt, delays>>

\* await setTimeout(delay) ends; the next attempt begins
executeWithRetrySleep ==
  /\ retryOnly
  /\ rpc = "sleep"
  /\ \E jitter \in JitterPermille :
       delays' = Append(delays, backoffDelay(baseDelay, currentAttempt, jitter))
  /\ currentAttempt' = currentAttempt + 1
  /\ rpc' = "call"
  /\ UNCHANGED <<rimpl, maxRetries, baseDelay, calls, classified, lastError,
                 retryableFailures, otherFailures, routcome, rresult>>

RetryNext ==
  \/ executeWithRetryBegin
  \/ executeWithRetryCallOk
  \/ executeWithRetryCallFails
  \/ executeWithRetrySleep

\* ========================================================================
\* constructWebhookEvent
\* JavaScript a || b on strings ("" stands for undefined / empty)
Or(a, b) == IF a # "" THEN a ELSE b

\* authorizationHeader: absent, the header the credentials produce, another one
Headers == {"", "valid", "invalid"}

\* merchantUsername and merchantPassword configured; the SDK client has validateCallback
Options == [credentials : BOOLEAN, sdkValidateCallback : BOOLEAN]

\* The id-bearing object of a body: payload (v2) or data (legacy)
AbsentFields == [present |-> FALSE, merchantOrderId |-> "", orderId |-> "",
                 merchantTransactionId |-> "", state |-> ""]
\* state of a payload: absent, two strings, and a JSON number
NonStringState == "<number>"
PayloadStates == {"", "COMPLETED", "PENDING", NonStringState}
Payloads == {AbsentFields} \cup
  [present : {TRUE}, merchantOrderId : {"", "cart_01_7"}, orderId : {"", "OMO123"},
   merchantTransactionId : {"", "MT785"}, state : PayloadStates]
LegacyData == {AbsentFields} \cup
  [present : {TRUE}, merchantOrderId : {"", "cart_01_7"}, orderId : {""},
   merchantTransactionId : {"", "MT785"}, state : PayloadStates]

CallbackTypes == {"PG_ORDER_COMPLETED", "PG_ORDER_FAILED", "PG_REFUND_COMPLETED",
                  "PG_REFUND_FAILED", "PG_OTHER", "constructor", ""}
LegacyCodes == {"PAYMENT_SUCCESS", "PAYMENT_ERROR", ""}

\* The JSON value a body encodes: v2 schema {type, payload}, legacy {code, data}
V2Contents == [type : CallbackTypes, code : {""}, payload : Payloads, data : {AbsentFields}]
LegacyContents == [type : {""}, code : LegacyCodes, payload : {AbsentFields}, data : LegacyData]
Contents == V2Contents \cup LegacyContents
EmptyContent == [type |-> "", code |-> "", payload |-> AbsentFields, data |-> AbsentFields]

\* A raw body: JSON text starting with "{", JSON text behind leading white
\* space, base64 of JSON text, or text that is neither
Bodies == [enc : {"json", "jsonWs", "base64"}, content : Contents]
          \cup {[enc |-> "garbage", content |-> EmptyContent]}

\* JSON.parse(text)
JSONparse(body) ==
  IF body.enc \in {"json", "jsonWs"} THEN [ok |-> TRUE, value |-> body.content]
  ELSE [ok |-> FALSE, value |-> EmptyContent]

\* atob(text): the decoded text, or a throw on characters outside base64
atob(body) ==
  IF body.enc = "base64" THEN [ok |-> TRUE, text |-> [enc |-> "json", content |-> body.content]]
  ELSE [ok |-> FALSE, text |-> body]

\* JSON.parse(encodedData.startsWith("{") ? encodedData : atob(encodedData))
legacyDecode(body) ==
  IF body.enc = "json" THEN JSONparse(body)
  ELSE IF atob(body).ok THEN JSONparse(atob(body).text)
  ELSE [ok |-> FALSE, value |-> EmptyContent]

\* StandardCheckoutClient.validateCallback of pg-sdk-node: checks the header
\* against the credentials and parses the body; throws otherwise
sdkValidateCallback(header, body) ==
  IF header = "valid" /\ JSONparse(body).ok
    THEN [ok |-> TRUE, type |-> body.content.type, payload |-> body.content.payload]
    ELSE [ok |-> FALSE, type |-> "", payload |-> AbsentFields]

NullResponse == [ok |-> FALSE, type |-> "", payload |-> AbsentFields]

\* PhonePeWrapper.validateWebhookCallback: the response (ok = FALSE is null)
\* and the number of SDK validations it ran
validateWebhookCallback(options, header, body) ==
  IF ~options.credentials THEN [response |-> NullResponse, sdkCalls |-> 0]
  ELSE IF header = "" THEN [response |-> NullResponse, sdkCalls |-> 0]
  ELSE IF ~options.sdkValidateCallback THEN [response |-> NullResponse, sdkCalls |-> 0]
  ELSE [response |-> sdkValidateCallback(header, body), sdkCalls |-> 1]

\* Names every object literal inherits from Object.prototype
ObjectPrototypeKeys ==
  {"constructor", "toString", "valueOf", "hasOwnProperty", "__proto__"}

\* typeMap[callbackType]: the entry of the object literal, an inherited member
\* of Object.prototype (a function or object, not a string), or undefined ("")
typeMap(callbackType) ==
  CASE callbackType = "PG_ORDER_COMPLETED" -> "checkout.order.completed"
    [] callbackType = "PG_ORDER_FAILED" -> "checkout.order.failed"
    [] callbackType = "PG_REFUND_COMPLETED" -> "pg.refund.completed"
    [] callbackType = "PG_REFUND_FAILED" -> "pg.refund.failed"
    [] callbackType \in ObjectPrototypeKeys -> "[inherited member of Object.prototype]"
    [] OTHER -> ""

\* typeMap[callbackType] || callbackType || "checkout.order.completed"
mapCallbackTypeToEventType(callbackType) ==
  Or(typeMap(callbackType), Or(callbackType, "checkout.order.completed"))

\* data.object of an event
WebhookObject(kind, code, data, body) ==
  [kind |-> kind, code |-> code, data |-> data, body |-> body]

\* data: {merchantOrderId, merchantTransactionId: ... || payload.orderId, orderId, state}
validatedData(payload) ==
  [present |-> TRUE, merchantOrderId |-> payload.merchantOrderId,
   orderId |-> payload.orderId,
   merchantTransactionId |-> Or(payload.merchantTransactionId, payload.orderId),
   state |-> payload.state]

\* maskValue on an id: "" stays "", anything else is masked
maskValue(value) == IF value = "" THEN "" ELSE "masked"

\* redactSensitiveData(parsedBody.payload)
redactSensitiveData(payload) ==
  [present |-> payload.present, merchantOrderId |-> maskValue(payload.merchantOrderId),
   orderId |-> maskValue(payload.orderId),
   merchantTransactionId |-> maskValue(payload.merchantTransactionId),
   state |-> payload.state]

\* The event of a validated callback; extraId continues the id chain
validatedEvent(response, extraId) ==
  [event |-> mapCallbackTypeToEventType(response.type),
   id |-> Or(response.payload.merchantOrderId, Or(response.payload.orderId,
             Or(response.payload.merchantTransactionId, extraId))),
   object |-> WebhookObject("validated", response.type,
                            validatedData(response.payload), EmptyContent)]

\* The event of the inner catch with the id of the legacy fallback
parseErrorEvent_unknownId ==
  [event |-> "PAYMENT_ERROR", id |-> "unknown",
   object |-> WebhookObject("parseError", "PARSE_ERROR", AbsentFields, EmptyContent)]

\* The event returned when the body cannot be parsed
parseErrorEvent ==
  [event |-> "PAYMENT_ERROR", id |-> "error_id",
   object |-> WebhookObject("parseError", "PARSE_ERROR", AbsentFields, EmptyContent)]

NoEvent == [event |-> "", id |-> "",
            object |-> WebhookObject("none", "", AbsentFields, EmptyContent)]

WebhookResult(outcome, error, event, wrapperCalls, sdkCalls, legacy, verified) ==
  [outcome |-> outcome, error |-> error, event |-> event, wrapperCalls |-> wrapperCalls,
   sdkCalls |-> sdkCalls, legacy |-> legacy, verified |-> verified]

\* PhonePeBase.buildLegacyWebhookEvent (variant core only)
buildLegacyWebhookEvent(options, header, body) ==
  LET decoded == legacyDecode(body)
      v == validateWebhookCallback(options, header, body)
      decodedBody == decoded.value
  IN IF ~decoded.ok
       THEN WebhookResult("returned", "", parseErrorEvent, 0, 0, TRUE, FALSE)
     ELSE IF v.response.ok
       THEN WebhookResult("returned", "",
              validatedEvent(v.response,
                Or(decodedBody.data.merchantTransactionId,
                   Or(decodedBody.data.merchantOrderId, "unknown"))),
              1, v.sdkCalls, TRUE, TRUE)
     ELSE WebhookResult("returned", "",
            [event |-> Or(decodedBody.code, "checkout.order.completed"),
             id |-> Or(decodedBody.data.merchantTransactionId,
                       Or(decodedBody.data.merchantOrderId, "unknown")),
             object |-> WebhookObject("decodedBody", decodedBody.code,
                                      decodedBody.data, decodedBody)],
            1, v.sdkCalls, TRUE, FALSE)

\* PhonePeBase.constructWebhookEvent, variant core
constructWebhookEvent_core(options, header, body) ==
  LET v == validateWebhookCallback(options, header, body)
      l == buildLegacyWebhookEvent(options, header, body)
  IN IF v.response.ok
       THEN WebhookResult("returned", "", validatedEvent(v.response, "unknown"),
                          1, v.sdkCalls, FALSE, TRUE)
     ELSE WebhookResult(l.outcome, l.error, l.event, 1 + l.wrapperCalls,
                        v.sdkCalls + l.sdkCalls, TRUE, l.verified)

\* PhonePeBase.constructWebhookEvent, variant part002
constructWebhookEvent_part002(options, header, body) ==
  LET v == validateWebhookCallback(options, header, body)
      parsedBody == JSONparse(body)
  IN IF header = ""
       THEN WebhookResult("raised", "Missing authorization header for webhook validation",
                          NoEvent, 0, 0, FALSE, FALSE)
     ELSE IF v.response.ok
       THEN WebhookResult("returned", "", validatedEvent(v.response, "unknown"),
                          1, v.sdkCalls, FALSE, TRUE)
     ELSE IF parsedBody.ok
       THEN WebhookResult("returned", "",
              [event |-> "PAYMENT_ERROR",
               id |-> Or(parsedBody.value.payload.merchantOrderId,
                         Or(parsedBody.value.payload.orderId, "error_id")),
               object |-> WebhookObject("validationError", "VALIDATION_ERROR",
                            redactSensitiveData(parsedBody.value.payload), EmptyContent)],
              1, v.sdkCalls, FALSE, FALSE)
     ELSE WebhookResult("returned", "", parseErrorEvent, 1, v.sdkCalls, FALSE, FALSE)

constructWebhookEvent(impl, options, header, body) ==
  IF impl = "core" THEN constructWebhookEvent_core(options, header, body)
  ELSE constructWebhookEvent_part002(options, header, body)

\* String.prototype.toUpperCase on the state, code and currency strings of
\* the model
toUpperCase(str) ==
  CASE str = "completed" -> "COMPLETED"
    [] str = "pending" -> "PENDING"
    [] str = "Paid" -> "PAID"
    [] str = "failed" -> "FAILED"
    [] str = "payment_error" -> "PAYMENT_ERROR"
    [] str = "kwd" -> "KWD"
    [] str = "Tnd" -> "TND"
    [] str = "jpy" -> "JPY"
    [] OTHER -> str

\* webhookData.headers: at most one of the four header names is set
NoHeaders == [authorization |-> "", Authorization |-> "",
              xAuthorization |-> "", XAuthorization |-> ""]
WebhookHeaders ==
  {NoHeaders}
  \cup {[NoHeaders EXCEPT !.authorization = h] : h \in Headers}
  \cup {[NoHeaders EXCEPT !.Authorization = h] : h \in Headers}
  \cup {[NoHeaders EXCEPT !.xAuthorization = h] : h \in Headers}
  \cup {[NoHeaders EXCEPT !.XAuthorization = h] : h \in Headers}

\* headers["authorization"] || headers["Authorization"] ||
\* headers["x-authorization"] || headers["X-Authorization"] || ""
authorizationHeaderOf(headers) ==
  Or(headers.authorization, Or(headers.Authorization,
     Or(headers.xAuthorization, headers.XAuthorization)))

NoAction == [outcome |-> "pending", action |-> "", session_id |-> "", error |-> ""]
ActionResult(action, session_id) ==
  [outcome |-> "returned", action |-> action, session_id |-> session_id, error |-> ""]
ActionRaised(error) ==
  [outcome |-> "raised", action |-> "", session_id |-> "", error |-> error]

\* getWebhookActionAndData after constructWebhookEvent has ended with result
getWebhookActionAndData(result) ==
  LET event == result.event
      paymentData == event.object
      payload == paymentData.data
      merchantOrderId ==
        Or(payload.merchantOrderId, Or(payload.merchantTransactionId,
           Or(payload.orderId, event.id)))
      state == toUpperCase(payload.state)
      code == Or(paymentData.code, event.event)
      eventType == Or(code, event.event)
  IN IF result.outcome = "raised" THEN ActionRaised(result.error)
     ELSE IF payload.state = NonStringState
       THEN ActionRaised("payload.state.toUpperCase is not a function")
     ELSE IF eventType \in {"checkout.order.completed", "PAYMENT_SUCCESS", "SUCCESS",
                            "PG_ORDER_COMPLETED"}
       THEN ActionResult("captured", merchantOrderId)
     ELSE IF eventType \in {"checkout.order.failed", "PAYMENT_ERROR", "PAYMENT_DECLINED",
                            "PG_ORDER_FAILED"}
       THEN ActionResult("failed", merchantOrderId)
     ELSE IF eventType \in {"pg.refund.completed", "PG_REFUND_COMPLETED"}
       THEN ActionResult("captured", merchantOrderId)
     ELSE IF eventType \in {"pg.refund.failed", "PG_REFUND_FAILED"}
       THEN ActionResult("failed", merchantOrderId)
     ELSE IF state \in {"PENDING", "PAYMENT_PENDING", "PAYMENT_INITIATED"}
       THEN ActionResult("pending", merchantOrderId)
     ELSE IF state \in {"SUCCESS", "COMPLETED", "PAID"}
       THEN ActionResult("captured", merchantOrderId)
     ELSE ActionResult("not_supported", "")

WebhookInit ==
  /\ whAction = NoAction
  /\ whpc = "idle"
  /\ whimpl = "core"
  /\ whHeader = ""
  /\ whBody = [enc |-> "garbage", content |-> EmptyContent]
  /\ whOptions = [credentials |-> FALSE, sdkValidateCallback |-> FALSE]
  /\ whResult = WebhookResult("pending", "", NoEvent, 0, 0, FALSE, FALSE)

\* constructWebhookEvent(authorizationHeader, callbackBody) runs to its end
constructWebhookEventCall ==
  /\ webhookOnly
  /\ whpc = "idle"
  /\ \E impl \in Impls, options \in Options, header \in Headers, body \in Bodies :
       /\ whimpl' = impl
       /\ whOptions' = options
       /\ whHeader' = header
       /\ whBody' = body
       /\ whResult' = constructWebhookEvent(impl, options, header, body)
  /\ whAction' = NoAction
  /\ whpc' = "done"

\* getWebhookActionAndData(webhookData) runs to its end
getWebhookActionAndDataCall ==
  /\ webhookOnly
  /\ whpc = "idle"
  /\ \E impl \in Impls, options \in Options, headers \in WebhookHeaders, body \in Bodies :
       LET result == constructWebhookEvent(impl, options, authorizationHeaderOf(headers), body)
       IN /\ whimpl' = impl
          /\ whOptions' = options
          /\ whHeader' = authorizationHeaderOf(headers)
          /\ whBody' = body
          /\ whResult' = result
          /\ whAction' = getWebhookActionAndData(result)
  /\ whpc' = "done"

\* The provider is ready for the next callback
constructWebhookEventReset ==
  /\ webhookOnly
  /\ whpc = "done"
  /\ whpc' = "idle"
  /\ whimpl' = "core"
  /\ whHeader' = ""
  /\ whBody' = [enc |-> "garbage", content |-> EmptyContent]
  /\ whOptions' = [credentials |-> FALSE, sdkValidateCallback |-> FALSE]
  /\ whResult' = WebhookResult("pending", "", NoEvent, 0, 0, FALSE, FALSE)
  /\ whAction' = NoAction

WebhookNext ==
  \/ constructWebhookEventCall
  \/ getWebhookActionAndDataCall
  \/ constructWebhookEventReset

\* ------------------------------------------------------------------------
\* Status cache of part002: statusCache, inFlightStatusRequests and
\* getOrderStatusWithCache.  The promise chain of a fetch is
\* gateway call -> .then (writes the cache) -> .finally (removes the in-flight
\* entry); other callers can run before the .finally callback does.

OrderIds == {"cart_01_1"}
WithDetailsValues == BOOLEAN
OrderStates == {"PENDING", "COMPLETED"}

\* `${merchantOrderId}:${withDetails}`
inFlightKey(merchantOrderId, withDetails) == <<merchantOrderId, withDetails>>
InFlightKeys == {inFlightKey(id, wd) : id \in OrderIds, wd \in WithDetailsValues}

\* One step of the clock
TickMs == STATUS_CACHE_TTL_MS \div 2

NoCacheEntry == [present |-> FALSE, data |-> "none", expiresAt |-> 0, request |-> 0]
CacheEntry(data, expiresAt, request) ==
  [present |-> TRUE, data |-> data, expiresAt |-> expiresAt, request |-> request]

\* getOrderStatusWithCache without the look at inFlightStatusRequests
getOrderStatusWithCacheVia_noDedup(cacheEntry, existingRequest, t) ==
  IF cacheEntry.present /\ cacheEntry.expiresAt > t THEN "cache" ELSE "gateway"

\* getOrderStatusWithCache serving an entry up to and at its expiresAt
getOrderStatusWithCacheVia_servesAtExpiry(cacheEntry, existingRequest, t) ==
  IF cacheEntry.present /\ cacheEntry.expiresAt >= t THEN "cache"
  ELSE IF existingRequest # 0 THEN "inflight"
  ELSE "gateway"

\* Where getOrderStatusWithCache takes its answer from
getOrderStatusWithCacheVia(cacheEntry, existingRequest, t) ==
  IF cacheEntry.present /\ cacheEntry.expiresAt > t THEN "cache"
  ELSE IF existingRequest # 0 THEN "inflight"
  ELSE "gateway"

\* The cache entry after the access: an expired entry is deleted
accessCacheEntry(cacheEntry, t) ==
  IF cacheEntry.present /\ cacheEntry.expiresAt <= t THEN NoCacheEntry ELSE cacheEntry

RequestKey(r) == inFlightKey(requests[r].id, requests[r].withDetails)
SettledRequests == {r \in 1..Len(requests) : requests[r].outcome # "none"}
\* The fetches whose .finally callback has run
RemovedRequests == {r \in 1..Len(requests) : requests[r].stage = "done"}

\* The .finally callback leaving the map as it is
deleteInFlight_keeps(map, key) == map

\* inFlightStatusRequests.delete(inFlightKey)
deleteInFlight(map, key) == [map EXCEPT ![key] = 0]

CacheInit ==
  /\ now = 0
  /\ statusCache = [id \in OrderIds |-> NoCacheEntry]
  /\ inFlightStatusRequests = [k \in InFlightKeys |-> 0]
  /\ requests = <<>>
  /\ statusCalls = <<>>

getOrderStatusWithCacheCall ==
  \E id \in OrderIds, wd \in WithDetailsValues :
    LET key == inFlightKey(id, wd)
        cacheEntry == statusCache[id]
        existingRequest == inFlightStatusRequests[key]
        via == getOrderStatusWithCacheVia(cacheEntry, existingRequest, now)
        request == CASE via = "cache" -> cacheEntry.request
                     [] via = "inflight" -> existingRequest
                     [] OTHER -> Len(requests) + 1
    IN /\ Len(statusCalls) < MaxStatusCalls
       /\ statusCache' = [statusCache EXCEPT ![id] = accessCacheEntry(cacheEntry, now)]
       /\ statusCalls' = Append(statusCalls,
            [id |-> id, withDetails |-> wd, at |-> now, via |-> via,
             request |-> request,
             data |-> IF via = "cache" THEN cacheEntry.data ELSE "none",
             settled |-> SettledRequests,
             removed |-> RemovedRequests])
       /\ IF via = "gateway"
          THEN /\ requests' = Append(requests,
                    [id |-> id, withDetails |-> wd, stage |-> "pending",
                     outcome |-> "none", data |-> "none", settledAt |-> 0,
                     delivered |-> "none"])
               /\ inFlightStatusRequests' =
                    [inFlightStatusRequests EXCEPT ![key] = Len(requests) + 1]
          ELSE UNCHANGED <<requests, inFlightStatusRequests>>
       /\ UNCHANGED now
       /\ cacheOnly

\* phonepe_.getOrderStatus resolves and the .then callback runs:
\* .then((response) => { statusCache.set(...); return response })
getOrderStatusResolves ==
  \E r \in 1..Len(requests), data \in OrderStates :
    /\ requests[r].stage = "pending"
    /\ statusCache' = [statusCache EXCEPT ![requests[r].id] =
                         CacheEntry(data, now + STATUS_CACHE_TTL_MS, r)]
    /\ requests' = [requests EXCEPT ![r].stage = "fulfilled", ![r].outcome = "ok",
                                    ![r].data = data, ![r].settledAt = now]
    /\ UNCHANGED <<now, inFlightStatusRequests, statusCalls>>
    /\ cacheOnly

\* phonepe_.getOrderStatus rejects: the .then callback is skipped
getOrderStatusRejects ==
  \E r \in 1..Len(requests) :
    /\ requests[r].stage = "pending"
    /\ requests' = [requests EXCEPT ![r].stage = "rejected", ![r].outcome = "fail",
                                    ![r].settledAt = now]
    /\ UNCHANGED <<now, statusCache, inFlightStatusRequests, statusCalls>>
    /\ cacheOnly

\* .finally(() => { inFlightStatusRequests.delete(inFlightKey) }): the
\* callback runs, then the promise the callers hold settles as the gateway
\* call did
getOrderStatusFinally ==
  \E r \in 1..Len(requests) :
    /\ requests[r].stage \in {"fulfilled", "rejected"}
    /\ inFlightStatusRequests' = deleteInFlight(inFlightStatusRequests, RequestKey(r))
    /\ requests' = [requests EXCEPT ![r].stage = "done",
                                    ![r].delivered = requests[r].outcome]
    /\ UNCHANGED <<now, statusCache, statusCalls>>
    /\ cacheOnly

\* Time passes.  The .then and .finally callbacks of a settled gateway call
\* run as consecutive promise jobs: other jobs can run between them, a clock
\* step of seconds cannot
Tick ==
  /\ now < MaxTicks * TickMs
  /\ \A r \in 1..Len(requests) : requests[r].stage \notin {"fulfilled", "rejected"}
  /\ now' = now + TickMs
  /\ UNCHANGED <<statusCache, inFlightStatusRequests, requests, statusCalls>>
  /\ cacheOnly

CacheNext ==
  \/ getOrderStatusWithCacheCall
  \/ getOrderStatusResolves
  \/ getOrderStatusRejects
  \/ getOrderStatusFinally
  \/ Tick

\* ------------------------------------------------------------------------
\* The webhook reconciler of api/utils/utils.ts: handlePaymentHook,
\* onPaymentIntentSucceeded, completeCartIfNecessary, capturePaymentIfNecessary
\* and capturePaymentCollectionIfNecessary.  Every await on a host service is
\* a point where another delivery can run.
\*
\* The host platform (order, cart, idempotency-key and payment-collection
\* services, the transaction manager, the cart completion strategy) is not
\* part of the repository; it is modelled as the specification describes it:
\* a transactional store whose idempotency records are unique per
\* (request path, key), whose completion is replayed from a finished record,
\* and which reports a conflict instead of a second order for a cart.

Deliveries == 1..NumDeliveries

\* Identifiers are the sequences of their "_"-separated segments; <<>> is an
\* absent or empty identifier.
NoId == <<>>
split(id) == id
Part(parts, i) == IF i <= Len(parts) THEN parts[i] ELSE "undefined"
OrId(a, b) == IF a # NoId THEN a ELSE b

\* `${cartIdParts[0]}_${cartIdParts[1]}`
cartIdOf(merchantOrderId) ==
  <<Part(split(merchantOrderId), 1), Part(split(merchantOrderId), 2)>>

isPaymentCollection(id) == id # NoId /\ id[1] = "paycol"

\* Host data: the carts and payment collections that exist
Carts == {<<"cart", "01">>}
PaymentCollectionIds == {<<"paycol", "01">>}
EventIds == {"evt_1", "evt_2"}

\* The events and payment intents handed to handlePaymentHook
HookEvents ==
  [event : {"", "checkout.order.completed", "checkout.order.failed",
            "pg.refund.completed", "checkout.order.unknown"},
   type : {""},
   id : EventIds]
PaymentIntents ==
  {[code |-> "PAYMENT_SUCCESS", merchantOrderId |-> <<"cart", "01", "1">>,
    merchantTransactionId |-> NoId],
   [code |-> "PAYMENT_SUCCESS", merchantOrderId |-> NoId,
    merchantTransactionId |-> <<"cart", "01", "2">>],
   [code |-> "PAYMENT_SUCCESS", merchantOrderId |-> NoId,
    merchantTransactionId |-> NoId],
   [code |-> "PAYMENT_SUCCESS", merchantOrderId |-> <<"cart01">>,
    merchantTransactionId |-> NoId],
   [code |-> "SUCCESS", merchantOrderId |-> <<"paycol", "01", "1">>,
    merchantTransactionId |-> NoId],
   [code |-> "PAYMENT_DECLINED", merchantOrderId |-> <<"cart", "01", "1">>,
    merchantTransactionId |-> NoId],
   [code |-> "PAYMENT_PENDING", merchantOrderId |-> <<"cart", "01", "1">>,
    merchantTransactionId |-> NoId]}

\* event.event || event.type || paymentIntent.code
eventTypeOf(event, paymentIntent) == Or(Or(event.event, event.type), paymentIntent.code)

SuccessTypes == {"checkout.order.completed", "PAYMENT_SUCCESS", "SUCCESS"}
FailureTypes == {"checkout.order.failed", "PAYMENT_ERROR", "PAYMENT_DECLINED"}
RefundTypes == {"pg.refund.completed", "pg.refund.failed"}

\* The switch with the failure cases falling through to the success branch
eventClass_failureFallsThrough(eventType) ==
  CASE eventType \in SuccessTypes \cup FailureTypes -> "success"
    [] eventType \in RefundTypes -> "refund"
    [] OTHER -> "unhandled"

\* The switch of handlePaymentHook
eventClass(eventType) ==
  CASE eventType \in SuccessTypes -> "success"
    [] eventType \in FailureTypes -> "failure"
    [] eventType \in RefundTypes -> "refund"
    [] OTHER -> "unhandled"

\* The message buildError composes, by its kind
buildError(errCode) ==
  IF errCode = "409" THEN "handle failed"
  ELSE IF errCode \in {"SERIALIZATION_FAILURE", "23505"} THEN "can be ignored, retried automatically"
  ELSE "handling failed"

\* completeCartIfNecessary with the order lookup ignored
orderMissing_always(order) == TRUE

\* if (!order)
orderMissing(order) == ~order.exists

\* if (response_code !== 200) throw
completionFailed(response_code) == response_code # 200

NoOrder == [exists |-> FALSE, payment_status |-> "none"]
Order(payment_status) == [exists |-> TRUE, payment_status |-> payment_status]
NoKey == [state |-> "none", owner |-> 0, finished |-> FALSE]

NewDelivery ==
  [pc |-> "idle", merchantOrderId |-> NoId, cartId |-> NoId, eventId |-> "",
   eventType |-> "", lookup |-> "none", key |-> "none", completeCalls |-> 0,
   completion |-> "none", captureCalls |-> 0, txOrder |-> NoOrder,
   errCode |-> "", logged |-> "", statusCode |-> 0]

HookInit ==
  /\ deliveries = [d \in Deliveries |-> NewDelivery]
  /\ orders = [c \in Carts |-> NoOrder]
  /\ idempotencyKeys = [k \in EventIds |-> NoKey]
  /\ paymentCollections =
       [p \in PaymentCollectionIds |->
          [merchantOrderId |-> <<"paycol", "01", "1">>, captured |-> FALSE]]
  /\ hostCalls = [completions |-> 0, captures |-> 0, collectionCaptures |-> 0]

\* ---- the host platform ----

\* orderService.retrieveByCartId outside a transaction: the committed order
committedOrder(cartId) == IF cartId \in Carts THEN orders[cartId] ELSE NoOrder

\* orderService.withTransaction(tx).retrieveByCartId: the transaction's own
\* order, else the committed one
visibleOrder(d) ==
  IF deliveries[d].txOrder.exists THEN deliveries[d].txOrder
  ELSE committedOrder(deliveries[d].cartId)

\* idempotencyKeyService.withTransaction(tx).retrieve finds a record that is
\* committed or the transaction's own
keyVisible(d, record) ==
  record.state = "committed" \/ (record.state = "pending" /\ record.owner = d)

\* A create of a record another open transaction has created waits for that
\* transaction to end
keyBlocked(d, record) == record.state = "pending" /\ record.owner # d

\* What cartCompletionStrategy.complete can answer: a finished record replays
\* its response; a cart that has an order is refused; otherwise the cart is
\* completed, or the completion is declined (e.g. payment not authorized)
cartCompletionOutcomes(record, order) ==
  IF record.finished THEN {"replayed"}
  ELSE IF order.exists THEN {"refused"}
  ELSE {"performed", "declined"}

completionResponseCode(outcome) ==
  CASE outcome \in {"performed", "replayed"} -> 200
    [] outcome = "refused" -> 409
    [] OTHER -> 422

completionErrorCode(outcome) ==
  IF outcome = "refused" THEN "cart_incompatible_state" ELSE "payment_authorization_error"

\* The store lets one transaction only commit an order for a cart
commitConflict(d) ==
  deliveries[d].completion = "performed" /\ committedOrder(deliveries[d].cartId).exists

\* Rollback of the transaction of d: its uncommitted record disappears
releaseKeys(d) ==
  [k \in EventIds |->
     IF idempotencyKeys[k].state = "pending" /\ idempotencyKeys[k].owner = d
     THEN NoKey ELSE idempotencyKeys[k]]

\* The storefront completes the cart before the first delivery arrives: the
\* order exists, its payment is not captured yet
storefrontCompletesCart ==
  \E cart \in Carts :
    /\ \A d \in Deliveries : deliveries[d].pc = "idle"
    /\ ~orders[cart].exists
    /\ orders' = [orders EXCEPT ![cart] = Order("awaiting")]
    /\ UNCHANGED <<deliveries, idempotencyKeys, paymentCollections, hostCalls>>
    /\ hookOnly

\* ---- handlePaymentHook ----

\* The catch block answering 200 instead
Failed_returns200(delivery, errCode) ==
  [delivery EXCEPT !.pc = "done", !.errCode = errCode, !.logged = buildError(errCode),
                   !.statusCode = 200, !.txOrder = NoOrder]

\* catch (err) { logger.error(buildError(eventType, err)); return 409 }
Failed(delivery, errCode) ==
  [delivery EXCEPT !.pc = "done", !.errCode = errCode, !.logged = buildError(errCode),
                   !.statusCode = 409, !.txOrder = NoOrder]

Goto(delivery, pc) == [delivery EXCEPT !.pc = pc]

\* handlePaymentHook up to the first await: 400, the cart id, the switch on
\* the event type, and for a success event the opening of the transaction
handlePaymentHookBegin ==
  \E d \in Deliveries, event \in HookEvents, paymentIntent \in PaymentIntents :
    LET merchantOrderId ==
          OrId(paymentIntent.merchantOrderId, paymentIntent.merchantTransactionId)
        cartId == cartIdOf(merchantOrderId)
        eventType == eventTypeOf(event, paymentIntent)
        \* event.id is read by the success branch only
        started == [NewDelivery EXCEPT !.merchantOrderId = merchantOrderId,
                                       !.cartId = cartId,
                                       !.eventId = IF eventClass(eventType) = "success"
                                                   THEN event.id ELSE "",
                                       !.eventType = eventType]
    IN /\ deliveries[d].pc = "idle"
       /\ \A e \in 1..(d - 1) : deliveries[e].pc # "idle"
       /\ deliveries' = [deliveries EXCEPT ![d] =
            IF merchantOrderId = NoId
            THEN [NewDelivery EXCEPT !.pc = "done", !.statusCode = 400,
                                     !.eventType = eventType,
                                     !.logged = "no merchantOrderId"]
            ELSE CASE eventClass(eventType) = "success" ->
                        Goto(started, IF isPaymentCollection(cartId)
                                      THEN "paycolRetrieve" ELSE "orderLookup")
                   [] eventClass(eventType) = "failure" ->
                        [started EXCEPT !.pc = "done", !.statusCode = 200,
                                        !.logged = "payment failed"]
                   [] eventClass(eventType) = "refund" ->
                        [started EXCEPT !.pc = "done", !.statusCode = 200,
                                        !.logged = "refund webhook received"]
                   [] OTHER ->
                        [started EXCEPT !.pc = "done", !.statusCode = 204,
                                        !.logged = "unhandled event type"]]
       /\ UNCHANGED <<orders, idempotencyKeys, paymentCollections, hostCalls>>
       /\ hookOnly

\* completeCartIfNecessary: orderService.retrieveByCartId(cartId), if (!order)
completeCartIfNecessaryLookup ==
  \E d \in Deliveries :
    LET order == committedOrder(deliveries[d].cartId)
    IN /\ deliveries[d].pc = "orderLookup"
       /\ deliveries' = [deliveries EXCEPT ![d] =
            [@ EXCEPT !.pc = IF orderMissing(order) THEN "keyRetrieve" ELSE "captureLookup",
                      !.lookup = IF order.exists THEN "found" ELSE "missing"]]
       /\ UNCHANGED <<orders, idempotencyKeys, paymentCollections, hostCalls>>
       /\ hookOnly

\* idempotencyKeyServiceTx.retrieve({request_path, idempotency_key: eventId})
idempotencyKeyRetrieve ==
  \E d \in Deliveries :
    /\ deliveries[d].pc = "keyRetrieve"
    /\ deliveries' = [deliveries EXCEPT ![d] =
         IF keyVisible(d, idempotencyKeys[deliveries[d].eventId])
         THEN [@ EXCEPT !.pc = "cartRetrieve", !.key = "retrieved"]
         ELSE Goto(@, "keyCreate")]
    /\ UNCHANGED <<orders, idempotencyKeys, paymentCollections, hostCalls>>
    /\ hookOnly

\* if (!idempotencyKey) idempotencyKeyService.withTransaction(tx).create(...)
idempotencyKeyCreate ==
  \E d \in Deliveries :
    LET k == deliveries[d].eventId
    IN /\ deliveries[d].pc = "keyCreate"
       /\ ~keyBlocked(d, idempotencyKeys[k])
       /\ IF idempotencyKeys[k].state = "committed"
          THEN /\ deliveries' = [deliveries EXCEPT ![d] = Failed(@, "23505")]
               /\ idempotencyKeys' = releaseKeys(d)
          ELSE /\ deliveries' = [deliveries EXCEPT ![d] =
                    [@ EXCEPT !.pc = "cartRetrieve", !.key = "created"]]
               /\ idempotencyKeys' = [idempotencyKeys EXCEPT ![k] =
                    [state |-> "pending", owner |-> d, finished |-> FALSE]]
       /\ UNCHANGED <<orders, paymentCollections, hostCalls>>
       /\ hookOnly

\* cartService.withTransaction(tx).retrieve(cartId): throws for a cart that
\* does not exist
cartServiceRetrieve ==
  \E d \in Deliveries :
    /\ deliveries[d].pc = "cartRetrieve"
    /\ IF deliveries[d].cartId \in Carts
       THEN /\ deliveries' = [deliveries EXCEPT ![d] = Goto(@, "complete")]
            /\ UNCHANGED idempotencyKeys
       ELSE /\ deliveries' = [deliveries EXCEPT ![d] = Failed(@, "not_found")]
            /\ idempotencyKeys' = releaseKeys(d)
    /\ UNCHANGED <<orders, paymentCollections, hostCalls>>
    /\ hookOnly

\* completionStrat.withTransaction(tx).complete(cartId, idempotencyKey, ...);
\* if (response_code !== 200) throw new MedusaError(...)
cartCompletionStrategyComplete ==
  \E d \in Deliveries :
    /\ deliveries[d].pc = "complete"
    /\ \E outcome \in cartCompletionOutcomes(idempotencyKeys[deliveries[d].eventId],
                                             visibleOrder(d)) :
         LET called == [deliveries[d] EXCEPT !.completeCalls = @ + 1,
                                              !.completion = outcome]
         IN IF completionFailed(completionResponseCode(outcome))
            THEN /\ deliveries' = [deliveries EXCEPT ![d] =
                      Failed(called, completionErrorCode(outcome))]
                 /\ idempotencyKeys' = releaseKeys(d)
            ELSE /\ deliveries' = [deliveries EXCEPT ![d] =
                      [called EXCEPT !.pc = "captureLookup",
                                     !.txOrder = IF outcome = "performed"
                                                 THEN Order("awaiting") ELSE @]]
                 /\ UNCHANGED idempotencyKeys
    /\ UNCHANGED <<orders, paymentCollections, hostCalls>>
    /\ hookOnly

\* capturePaymentIfNecessary: orderService.withTransaction(tx)
\* .retrieveByCartId(cartId); if (order && order.payment_status !== "captured")
capturePaymentIfNecessaryLookup ==
  \E d \in Deliveries :
    LET order == visibleOrder(d)
    IN /\ deliveries[d].pc = "captureLookup"
       /\ deliveries' = [deliveries EXCEPT ![d] =
            Goto(@, IF order.exists /\ order.payment_status # "captured"
                    THEN "capture" ELSE "commit")]
       /\ UNCHANGED <<orders, idempotencyKeys, paymentCollections, hostCalls>>
       /\ hookOnly

\* orderService.withTransaction(tx).capturePayment(order.id)
orderServiceCapturePayment ==
  \E d \in Deliveries :
    /\ deliveries[d].pc = "capture"
    /\ deliveries' = [deliveries EXCEPT ![d] =
         [@ EXCEPT !.pc = "commit", !.captureCalls = @ + 1,
                   !.txOrder = Order("captured")]]
    /\ hostCalls' = [hostCalls EXCEPT !.captures = @ + 1]
    /\ UNCHANGED <<orders, idempotencyKeys, paymentCollections>>
    /\ hookOnly

\* capturePaymentCollectionIfNecessary: paymentCollectionService.retrieve
\* (resourceId).catch(() => undefined), the search of the payment of the
\* merchant order id, if (payment && !payment.captured_at)
capturePaymentCollectionIfNecessaryRetrieve ==
  \E d \in Deliveries :
    LET resourceId == deliveries[d].cartId
        found == resourceId \in PaymentCollectionIds
        payment == paymentCollections[resourceId]
    IN /\ deliveries[d].pc = "paycolRetrieve"
       /\ deliveries' = [deliveries EXCEPT ![d] =
            Goto(@, IF /\ found
                       /\ payment.merchantOrderId = deliveries[d].merchantOrderId
                       /\ ~payment.captured
                    THEN "paycolCapture" ELSE "commit")]
       /\ UNCHANGED <<orders, idempotencyKeys, paymentCollections, hostCalls>>
       /\ hookOnly

\* manager.transaction((manager) => paymentCollectionService
\* .withTransaction(manager).capture(payment.id)): a transaction of its own
paymentCollectionCapture ==
  \E d \in Deliveries :
    /\ deliveries[d].pc = "paycolCapture"
    /\ deliveries' = [deliveries EXCEPT ![d] =
         [@ EXCEPT !.pc = "commit", !.captureCalls = @ + 1]]
    /\ paymentCollections' = [paymentCollections EXCEPT
         ![deliveries[d].cartId].captured = TRUE]
    /\ hostCalls' = [hostCalls EXCEPT !.collectionCaptures = @ + 1]
    /\ UNCHANGED <<orders, idempotencyKeys>>
    /\ hookOnly

\* The callback of manager.transaction returns: the transaction commits and
\* handlePaymentHook returns 200, or the commit fails and it returns 409
transactionCommit ==
  \E d \in Deliveries :
    LET cart == deliveries[d].cartId
    IN /\ deliveries[d].pc = "commit"
       /\ IF commitConflict(d)
          THEN /\ deliveries' = [deliveries EXCEPT ![d] =
                    Failed(@, "SERIALIZATION_FAILURE")]
               /\ idempotencyKeys' = releaseKeys(d)
               /\ UNCHANGED <<orders, hostCalls>>
          ELSE /\ deliveries' = [deliveries EXCEPT ![d] =
                    [@ EXCEPT !.pc = "done", !.statusCode = 200]]
               /\ orders' = IF deliveries[d].txOrder.exists
                            THEN [orders EXCEPT ![cart] = deliveries[d].txOrder]
                            ELSE orders
               /\ idempotencyKeys' =
                    [k \in EventIds |->
                       IF idempotencyKeys[k].state = "pending" /\ idempotencyKeys[k].owner = d
                       THEN [state |-> "committed", owner |-> d, finished |-> TRUE]
                       ELSE idempotencyKeys[k]]
               /\ hostCalls' = [hostCalls EXCEPT !.completions =
                    IF deliveries[d].completion = "performed" THEN @ + 1 ELSE @]
       /\ UNCHANGED paymentCollections
       /\ hookOnly

HookNext ==
  \/ storefrontCompletesCart
  \/ handlePaymentHookBegin
  \/ completeCartIfNecessaryLookup
  \/ idempotencyKeyRetrieve
  \/ idempotencyKeyCreate
  \/ cartServiceRetrieve
  \/ cartCompletionStrategyComplete
  \/ capturePaymentIfNecessaryLookup
  \/ orderServiceCapturePayment
  \/ capturePaymentCollectionIfNecessaryRetrieve
  \/ paymentCollectionCapture
  \/ transactionCommit

\* ========================================================================
\* The provider operations: initiatePayment, updatePayment, getPaymentStatus,
\* capturePayment, cancelPayment, refundPayment.  An identifier is the
\* sequence of its characters.

Rep(c, n) == [i \in 1..n |-> c]

Letters == {"c", "a", "r", "t", "H", "p", "y", "o", "l", "f", "s", "e", "x", "M", "T"}
DigitChars == {"0", "1", "2", "3", "4", "5", "6", "7", "8", "9"}

\* /[A-Za-z0-9._-]/ on one character
matchesCharset(c) == c \in Letters \cup DigitChars \cup {".", "_", "-"}

\* /^[A-Za-z0-9._-]+$/.test(str)
matchesCharsetPattern(str) ==
  Len(str) > 0 /\ \A i \in 1..Len(str) : matchesCharset(str[i])

\* String.prototype.trim: white space is the character " "
trim(str) ==
  LET kept == {i \in 1..Len(str) : str[i] # " "}
  IN IF kept = {} THEN <<>>
     ELSE SubSeq(str, CHOOSE i \in kept : \A j \in kept : i <= j,
                      CHOOSE i \in kept : \A j \in kept : i >= j)

\* str.slice(0, n)
sliceTo(str, n) == SubSeq(str, 1, IF Len(str) < n THEN Len(str) ELSE n)

\* String(n) for a natural number
RECURSIVE decimal(_)
decimal(n) ==
  LET digit == <<"0", "1", "2", "3", "4", "5", "6", "7", "8", "9">>[(n % 10) + 1]
  IN IF n < 10 THEN <<digit>> ELSE Append(decimal(n \div 10), digit)

\* str.split("_")
RECURSIVE splitUnderscore(_)
splitUnderscore(str) ==
  LET at == {i \in 1..Len(str) : str[i] = "_"}
      first == CHOOSE i \in at : \A j \in at : i <= j
  IN IF at = {} THEN <<str>>
     ELSE <<SubSeq(str, 1, first - 1)>> \o splitUnderscore(SubSeq(str, first + 1, Len(str)))

\* `${cartIdParts[0]}_${cartIdParts[1]}` of handlePaymentHook on characters;
\* a missing segment prints as "undefined"
segmentText(parts, i) ==
  IF i <= Len(parts) THEN parts[i] ELSE <<"u", "n", "d", "e", "f", "i", "n", "e", "d">>
hookCartId(merchantOrderId) ==
  segmentText(splitUnderscore(merchantOrderId), 1) \o <<"_">>
    \o segmentText(splitUnderscore(merchantOrderId), 2)

\* The resource ids handed to initiatePayment: absent, a cart id of the host
\* (prefix, "_", 26 characters), short ids with one, no and two separators,
\* an over-long id, an id with a blank and a "#", blanks only, a padded id
ResourceIds ==
  {<<>>,
   <<"c", "a", "r", "t", "_">> \o Rep("H", 26),
   <<"c", "a", "r", "t", "_", "0", "1">>,
   <<"c", "a", "r", "t", "0", "1">>,
   <<"p", "a", "y", "_", "c", "o", "l", "_", "0", "1">>,
   <<"c", "a", "r", "t", "_">> \o Rep("x", 56),
   <<"c", "a", "r", "t", "_", "0", " ", "1", "#">>,
   Rep(" ", 3),
   <<" ", "c", "a", "r", "t", "_", "0", "1", " ">>}

\* A JavaScript number in thousandths, NaN or +Infinity
Finite(milli) == [kind |-> "finite", milli |-> milli]
NaN == [kind |-> "NaN", milli |-> 0]
Infinity == [kind |-> "Infinity", milli |-> 0]

\* amount as the host hands it over, with the value Number(amount) gives:
\* 100, 10.5, 10.504, 0.004, 0, -5, NaN, Infinity, "100", "abc", undefined
AmountInputs ==
  {[type |-> "number", value |-> Finite(100000)],
   [type |-> "number", value |-> Finite(10500)],
   [type |-> "number", value |-> Finite(10504)],
   [type |-> "number", value |-> Finite(4)],
   [type |-> "number", value |-> Finite(0)],
   [type |-> "number", value |-> Finite(-5000)],
   [type |-> "number", value |-> NaN],
   [type |-> "number", value |-> Infinity],
   [type |-> "string", value |-> Finite(100000)],
   [type |-> "string", value |-> NaN],
   [type |-> "undefined", value |-> NaN]}

\* typeof amount === "number" ? amount : Number(amount)
Number(amount) == amount.value

\* Number(x.toFixed(2))
toFixed2(x) ==
  IF x.kind # "finite" THEN x
  ELSE IF x.milli >= 0 THEN Finite(((x.milli + 5) \div 10) * 10)
  ELSE Finite(-((((-x.milli) + 5) \div 10) * 10))

\* Math.round(value * 100) / 100
roundToTwoDecimals(x) ==
  IF x.kind # "finite" THEN x ELSE Finite(((x.milli + 5) \div 10) * 10)

\* x <= 0 (false for NaN and +Infinity)
notPositive(x) == x.kind = "finite" /\ x.milli <= 0

\* PhonePeWrapper.validatePaymentInput
validatePaymentInput(input) ==
  /\ input.merchantOrderId # <<>>
  /\ ~notPositive(input.amount)
  /\ input.redirectUrl
  /\ ~(input.expireAfter < 300 \/ input.expireAfter > 3600)

\* normalizeAmount (part002): the amount, or a throw
normalizeAmount(value) ==
  IF Number(value).kind # "finite" THEN [ok |-> FALSE, amount |-> NaN]
  ELSE IF notPositive(Number(value)) THEN [ok |-> FALSE, amount |-> NaN]
  ELSE [ok |-> TRUE, amount |-> roundToTwoDecimals(Number(value))]

\* normalizeResourceId (part002); <<>> is undefined
normalizeResourceId(resourceId) ==
  sliceTo(SelectSeq(trim(resourceId), matchesCharset), 20)

\* randomUUID().replaceAll("-", "").slice(0, 16): the first 16 of the 32
\* hexadecimal digits of the UUID drawn
uuidSegment(uuid) == sliceTo(uuid, 16)

\* createMerchantOrderId (part002)
createMerchantOrderId(resourceId, uuid) ==
  IF resourceId = <<>> THEN uuidSegment(uuid)
  ELSE sliceTo(sliceTo(resourceId, 20) \o <<"-">> \o uuidSegment(uuid), 50)

\* The id without the sequence number
sequencedMerchantOrderId_withoutCount(resourceId, count) == resourceId \o <<"_">>

\* `${resourceId}_${PhonePeBase.sequenceCount}` (core)
sequencedMerchantOrderId(resourceId, count) == resourceId \o <<"_">> \o decimal(count)

NoCall == [kind |-> "none", merchantOrderId |-> <<>>, amount |-> NaN, expireAfter |-> 0]
GatewayCall(kind, merchantOrderId, amount, expireAfter) ==
  [kind |-> kind, merchantOrderId |-> merchantOrderId, amount |-> amount,
   expireAfter |-> expireAfter]

\* An error message is the sequence of its parts
NoResult == [outcome |-> "pending", error |-> <<>>, id |-> <<>>, status |-> "",
             state |-> "", captured |-> FALSE, canceled |-> FALSE,
             merchantOrderId |-> <<>>, data |-> <<>>, added |-> {}]
Raised(error) == [NoResult EXCEPT !.outcome = "raised", !.error = error]
Returned == [NoResult EXCEPT !.outcome = "returned"]

\* PhonePeBase.buildError(message, error): core prints
\* `${message}: ${error.message}. ${cause}`, part002 joins the non-empty
\* parts with ": "
buildError_base(impl, message, inner) ==
  IF impl = "core" THEN message \o <<": ">> \o inner \o <<".">>
  ELSE IF inner = <<>> THEN message
  ELSE message \o <<": ">> \o inner

\* What the gateway does with a call made through executeWithRetry: it
\* answers with a response object, or every attempt throws the same error.
\* keys are the fields of the response object or of the error's body, state
\* the value of its state field.
GatewayReply(error, keys, state) == [error |-> error, keys |-> keys, state |-> state]
ErrorOf(code, status, data, response) ==
  [code |-> code, status |-> status, data |-> data, response |-> response]
CreateReplies ==
  {GatewayReply(NoError, {"orderId", "redirectUrl", "state", "expireAt"}, "CREATED"),
   GatewayReply(ErrorOf("none", 500, "none", "none"), {}, ""),
   GatewayReply(ErrorOf("none", 599, "body", "none"), {"code", "message"}, ""),
   GatewayReply(ErrorOf("none", 0, "none", "none"), {}, ""),
   GatewayReply(ErrorOf("BAD_REQUEST", 400, "body", "none"), {"code", "message"}, ""),
   GatewayReply(ErrorOf("BAD_REQUEST", 400, "none", "body"), {"orderId", "state"}, "FAILED"),
   GatewayReply(ErrorOf("ECONNREFUSED", 0, "none", "none"), {}, ""),
   GatewayReply(ErrorOf("none", 429, "body", "none"), {"code", "message"}, "")}

\* executeWithRetry(apiCall) when every attempt ends alike: the response, the
\* data of an error that is not retried, or the throw after the last retry
executeWithRetryEnd(reply) ==
  IF reply.error = NoError
    THEN [thrown |-> FALSE, keys |-> reply.keys, state |-> reply.state]
  ELSE LET handledError == handlePhonePeError(reply.error)
       IN IF handledError.retry THEN [thrown |-> TRUE, keys |-> {}, state |-> ""]
          ELSE IF "indeterminate_due_to" \in DOMAIN handledError.data
            THEN [thrown |-> FALSE, keys |-> {"indeterminate_due_to"}, state |-> ""]
          ELSE [thrown |-> FALSE, keys |-> reply.keys, state |-> reply.state]

\* The test with one key dropped
isOrderStatusResponse_orderIdOnly(response) == "orderId" \in response.keys

\* initiatePayment: "orderId" in response && "redirectUrl" in response
isOrderStatusResponse(response) == {"orderId", "redirectUrl"} \subseteq response.keys

\* Replies of the gateway to a refund: the refund response, responses of
\* another shape, and the errors
RefundReplies ==
  {GatewayReply(NoError, {"refundId", "amount", "state"}, "PENDING"),
   GatewayReply(NoError, {"refundId", "state"}, "PENDING"),
   GatewayReply(NoError, {"unexpected"}, ""),
   GatewayReply(ErrorOf("none", 500, "none", "none"), {}, ""),
   GatewayReply(ErrorOf("none", 0, "none", "none"), {}, ""),
   GatewayReply(ErrorOf("BAD_REQUEST", 400, "body", "none"), {"code", "message"}, ""),
   GatewayReply(ErrorOf("ETIMEDOUT", 0, "none", "none"), {}, "")}

\* The fields refundPayment adds to the data of the session
RefundFields == {"refundId", "refundAmount", "refundState"}

\* The test with one key dropped
isRefundResponse_withoutAmount(response) == {"refundId", "state"} \subseteq response.keys

\* refundPayment: "refundId" in response && "amount" in response &&
\* "state" in response
isRefundResponse(response) == {"refundId", "amount", "state"} \subseteq response.keys

\* The paymentRequest of initiatePayment, or the throw before it exists
paymentRequest(impl, input, count, uuid) ==
  LET given == OrId(input.resource_id, input.id)
      resourceId == IF impl = "core" THEN given ELSE normalizeResourceId(given)
      merchantOrderId == IF impl = "core" THEN sequencedMerchantOrderId(resourceId, count)
                         ELSE createMerchantOrderId(resourceId, uuid)
      normalized == normalizeAmount(input.amount)
  IN [built |-> impl = "core" \/ normalized.ok,
      merchantOrderId |-> merchantOrderId,
      amount |-> IF impl = "core" THEN toFixed2(Number(input.amount)) ELSE normalized.amount,
      expireAfter |-> 1800,
      redirectUrl |-> input.redirectUrl,
      udf3 |-> resourceId]

\* initiatePayment runs to its end; updatePayment hands its input to it
initiatePaymentRun(op) ==
  /\ payOnly
  /\ ppc = "idle"
  /\ \E impl \in Impls, resource_id \in ResourceIds, id \in {<<>>, <<"s", "e", "s", "_", "1">>},
        amount \in AmountInputs, redirectUrl \in BOOLEAN, reply \in CreateReplies :
       LET input == [resource_id |-> resource_id, id |-> id, amount |-> amount,
                     redirectUrl |-> redirectUrl, reply |-> reply]
           response == executeWithRetryEnd(reply)
           count == IF impl = "core" THEN sequenceCount + 1 ELSE sequenceCount
           \* the UUID drawn is a fixed one here
           request == paymentRequest(impl, input, count, Rep("f", 32))
           valid == request.built /\ validatePaymentInput(request)
       IN /\ pimpl' = impl
          /\ pinput' = input
          /\ sequenceCount' = count
          /\ enteredRetry' = valid
          /\ gatewayCall' = IF valid
                            THEN GatewayCall("createPayment", request.merchantOrderId,
                                             request.amount, request.expireAfter)
                            ELSE NoCall
          /\ presult' =
               IF ~valid
                 THEN Raised(buildError_base(impl,
                        <<"An error occurred while initiating payment">>,
                        <<"Invalid payment request">>))
               ELSE IF response.thrown
                 THEN Raised(buildError_base(impl,
                        <<"An error occurred while initiating payment">>,
                        <<"An error occurred during PhonePe API call">>))
               ELSE IF isOrderStatusResponse(response)
                 THEN [Returned EXCEPT !.id = request.merchantOrderId,
                                       !.merchantOrderId = request.merchantOrderId,
                                       !.state = response.state]
               ELSE [Returned EXCEPT !.id = request.merchantOrderId,
                                     !.merchantOrderId = request.merchantOrderId,
                                     !.state = "PENDING"]
  /\ sequenceCount < MaxSequenceCount
  /\ pop' = op
  /\ ppc' = "done"

initiatePaymentCall == initiatePaymentRun("initiatePayment")

updatePaymentCall == initiatePaymentRun("updatePayment")

\* ---- operations on an existing payment ----

\* The order status the gateway (or the status cache) answers with
GatewayStates == {"", "COMPLETED", "completed", "PAID", "Paid", "SUCCESS", "PENDING",
                  "pending", "FAILED", "failed", "CANCELLED", "PAYMENT_SUCCESS",
                  "CREATED", "WEIRD"}
GatewayErrorCodes == {"", "PAYMENT_ERROR", "payment_error", "TRANSACTION_NOT_FOUND"}
OrderStatusResponses ==
  [state : GatewayStates, errorCode : GatewayErrorCodes,
   detailedErrorCode : {"", "PAYMENT_DECLINED"}]

\* getStatus comparing the state and the codes as they are written
getStatus_caseSensitive(orderStatus) ==
  LET key == Or(orderStatus.state, Or(orderStatus.errorCode, orderStatus.detailedErrorCode))
  IN CASE key \in {"COMPLETED", "PAID", "SUCCESS", "PAYMENT_SUCCESS"} -> "AUTHORIZED"
       [] key \in {"FAILED", "PAYMENT_ERROR", "PAYMENT_DECLINED", "BAD_REQUEST",
                   "INTERNAL_SERVER_ERROR", "AUTHORIZATION_FAILED"} -> "ERROR"
       [] key \in {"CANCELLED", "PAYMENT_CANCELLED", "TRANSACTION_NOT_FOUND"} -> "CANCELED"
       [] OTHER -> "PENDING"

\* getStatus (core and part002): the switch on state || code
getStatus(orderStatus) ==
  LET state == toUpperCase(orderStatus.state)
      code == Or(toUpperCase(orderStatus.errorCode),
                 toUpperCase(orderStatus.detailedErrorCode))
      key == Or(state, code)
  IN CASE key \in {"COMPLETED", "PAID", "SUCCESS", "PAYMENT_SUCCESS"} -> "AUTHORIZED"
       [] key \in {"PENDING", "PAYMENT_PENDING", "PAYMENT_INITIATED", "CREATED",
                   "INITIATED"} -> "PENDING"
       [] key \in {"FAILED", "PAYMENT_ERROR", "PAYMENT_DECLINED", "BAD_REQUEST",
                   "INTERNAL_SERVER_ERROR", "AUTHORIZATION_FAILED"} -> "ERROR"
       [] key \in {"CANCELLED", "PAYMENT_CANCELLED", "TRANSACTION_NOT_FOUND"} -> "CANCELED"
       [] OTHER -> "PENDING"

\* convertPaymentStatus (part003): the switch on
\* state?.toUpperCase() || code?.toUpperCase()
convertPaymentStatus(state, code) ==
  LET key == Or(toUpperCase(state), toUpperCase(code))
  IN CASE key \in {"SUCCESS", "PAYMENT_SUCCESS"} -> "AUTHORIZED"
       [] key \in {"PENDING", "PAYMENT_PENDING", "PAYMENT_INITIATED"} -> "PENDING"
       [] key \in {"FAILED", "PAYMENT_ERROR", "PAYMENT_DECLINED", "BAD_REQUEST",
                   "INTERNAL_SERVER_ERROR", "AUTHORIZATION_FAILED"} -> "ERROR"
       [] key \in {"CANCELLED", "PAYMENT_CANCELLED", "TRANSACTION_NOT_FOUND"} -> "CANCELED"
       [] OTHER -> "PENDING"

\* The ids found in the data of a payment: absent, "cart_01_1", blanks only,
\* over-long, with an unsupported character
IdInputs ==
  {<<>>,
   <<"c", "a", "r", "t", "_", "0", "1", "_", "1">>,
   Rep(" ", 2),
   <<"c", "a", "r", "t", "_">> \o Rep("x", 56),
   <<"c", "a", "r", "t", "#", "1">>}
PaymentData ==
  [merchantOrderId : IdInputs,
   merchantTransactionId : {<<>>, <<"M", "T", "7">>},
   id : {<<>>, <<"s", "e", "s", "_", "1">>},
   originalTransactionId : {<<>>}]
RefundData ==
  [merchantOrderId : IdInputs,
   merchantTransactionId : {<<>>, <<"M", "T", "7">>},
   id : {<<>>},
   originalTransactionId : {<<>>, <<"M", "T", "7">>}]

Resolved(id) == [ok |-> TRUE, id |-> id, error |-> <<>>]
Unresolved(error) == [ok |-> FALSE, id |-> <<>>, error |-> error]

\* ensureValidMerchantOrderId (part002)
ensureValidMerchantOrderId(impl, value, action) ==
  LET trimmed == trim(value)
      invalid(why) ==
        Unresolved(buildError_base(impl,
          <<"Invalid merchant order ID while attempting to ", action>>, <<why>>))
  IN IF trimmed = <<>> THEN invalid("Merchant order ID is empty")
     ELSE IF Len(trimmed) > 50 THEN invalid("Merchant order ID exceeds 50 characters")
     ELSE IF ~matchesCharsetPattern(trimmed)
       THEN invalid("Merchant order ID contains unsupported characters")
     ELSE Resolved(trimmed)

\* action.replace(/^get /, "getting ")
actionText(action) ==
  IF action = "get payment status" THEN "getting payment status" ELSE action

\* resolveMerchantOrderId (part002): the first candidate that is not blank
RECURSIVE resolveMerchantOrderId(_, _, _, _)
resolveMerchantOrderId(impl, candidates, action, required) ==
  IF candidates = <<>>
    THEN IF required
         THEN Unresolved(<<"No merchant order ID provided while ", actionText(action)>>)
         ELSE Resolved(<<>>)
  ELSE IF trim(Head(candidates)) # <<>>
    THEN ensureValidMerchantOrderId(impl, Head(candidates), action)
  ELSE resolveMerchantOrderId(impl, Tail(candidates), action, required)

\* core: the first non-empty candidate; if (!merchantOrderId) throw
firstMerchantOrderId(impl, candidates, action, required) ==
  LET found == SelectSeq(candidates, LAMBDA c : c # <<>>)
  IN IF found # <<>> THEN Resolved(Head(found))
     ELSE IF required
       THEN Unresolved(buildError_base(impl,
              <<"No merchant order ID provided while ", action>>,
              <<"No merchant order ID provided">>))
     ELSE Resolved(<<>>)

\* The merchant order id an operation works on, in either variant
merchantOrderIdOf(impl, candidates, action, required) ==
  IF impl = "core" THEN firstMerchantOrderId(impl, candidates, action, required)
  ELSE resolveMerchantOrderId(impl, candidates, action, required)

SuccessStates == {"SUCCESS", "COMPLETED", "PAID"}

\* What the status read of an operation ends with: the answer of the gateway,
\* an answer of the status cache (part002), or a throw of the gateway call
StatusReads(impl) ==
  {[source |-> "gateway", throws |-> FALSE], [source |-> "gateway", throws |-> TRUE]}
  \cup (IF impl = "part002" THEN {[source |-> "cache", throws |-> FALSE]} ELSE {})

statusCallOf(resolved, read) ==
  IF resolved.ok /\ resolved.id # <<>> /\ read.source = "gateway"
  THEN GatewayCall("getOrderStatus", resolved.id, NaN, 0) ELSE NoCall

\* getPaymentStatus runs to its end
getPaymentStatusCall ==
  /\ payOnly
  /\ ppc = "idle"
  /\ \E impl \in Impls, data \in PaymentData, orderStatus \in OrderStatusResponses :
     \E read \in StatusReads(impl) :
       LET resolved == merchantOrderIdOf(impl,
             <<data.merchantOrderId, data.merchantTransactionId, data.id>>,
             IF impl = "core" THEN "getting payment status" ELSE "get payment status",
             TRUE)
       IN /\ pimpl' = impl
          /\ pinput' = [data |-> data, orderStatus |-> orderStatus, read |-> read]
          /\ gatewayCall' = statusCallOf(resolved, read)
          /\ presult' =
               IF ~resolved.ok
                 THEN Raised(IF impl = "core" \/ Head(resolved.error) =
                                   "No merchant order ID provided while "
                             THEN resolved.error
                             ELSE buildError_base(impl,
                                    <<"An error occurred while getting payment status">>,
                                    resolved.error))
               ELSE IF read.throws
                 THEN Raised(buildError_base(impl,
                        <<"An error occurred while getting payment status">>,
                        <<"gateway error">>))
               ELSE [Returned EXCEPT !.id = resolved.id, !.status = getStatus(orderStatus),
                                     !.state = orderStatus.state]
  /\ pop' = "getPaymentStatus"
  /\ ppc' = "done"
  /\ enteredRetry' = FALSE
  /\ UNCHANGED sequenceCount

\* convertPaymentStatus (part003) applied to a state and a code
convertPaymentStatusCall ==
  /\ payOnly
  /\ ppc = "idle"
  /\ \E state \in GatewayStates, code \in GatewayErrorCodes :
       /\ pinput' = [data |-> <<>>,
                     orderStatus |-> [state |-> state, errorCode |-> code,
                                      detailedErrorCode |-> ""],
                     read |-> [source |-> "none", throws |-> FALSE]]
       /\ presult' = [Returned EXCEPT !.status = convertPaymentStatus(state, code),
                                      !.state = state]
  /\ pimpl' = "part003"
  /\ pop' = "convertPaymentStatus"
  /\ ppc' = "done"
  /\ gatewayCall' = NoCall
  /\ enteredRetry' = FALSE
  /\ UNCHANGED sequenceCount

\* The throw of capturePayment on a state that is no success state
notInSuccessState(impl, state) ==
  buildError_base(impl,
    <<"Payment not in success state: ", Or(state, "UNKNOWN"), ". Cannot capture.">>,
    <<"Payment state: ", state>>)

\* The test of capturePayment letting every state through
capturable_any(state) == TRUE

\* if (!["SUCCESS", "COMPLETED", "PAID"].includes(state))
capturable(state) == state \in SuccessStates

\* capturePayment runs to its end
capturePaymentCall ==
  /\ payOnly
  /\ ppc = "idle"
  /\ \E impl \in Impls, data \in PaymentData, orderStatus \in OrderStatusResponses :
     \E read \in StatusReads(impl) :
       LET resolved == merchantOrderIdOf(impl,
             <<data.merchantOrderId, data.merchantTransactionId>>,
             IF impl = "core" THEN "capturing payment" ELSE "capture payment", TRUE)
           state == toUpperCase(orderStatus.state)
           caught(error) ==
             IF impl = "core" THEN error
             ELSE buildError_base(impl, <<"An error occurred in capturePayment">>, error)
       IN /\ pimpl' = impl
          /\ pinput' = [data |-> data, orderStatus |-> orderStatus, read |-> read]
          /\ gatewayCall' = statusCallOf(resolved, read)
          /\ presult' =
               IF ~resolved.ok THEN Raised(caught(resolved.error))
               ELSE IF read.throws
                 THEN Raised(buildError_base(impl,
                        <<"An error occurred in capturePayment">>, <<"gateway error">>))
               ELSE IF ~capturable(state)
                 THEN [Raised(caught(notInSuccessState(impl, state))) EXCEPT
                         !.state = orderStatus.state]
               ELSE [Returned EXCEPT !.id = resolved.id, !.captured = TRUE,
                                     !.state = orderStatus.state]
  /\ pop' = "capturePayment"
  /\ ppc' = "done"
  /\ enteredRetry' = FALSE
  /\ UNCHANGED sequenceCount

\* The test of cancelPayment knowing one success state only
alreadySucceeded_completedOnly(state) == state = "COMPLETED"

\* if (["SUCCESS", "COMPLETED", "PAID"].includes(state))
alreadySucceeded(state) == state \in SuccessStates

\* cancelPayment runs to its end; deletePayment hands its input to it
cancelPaymentRun(op) ==
  /\ payOnly
  /\ ppc = "idle"
  /\ \E impl \in Impls, data \in PaymentData, orderStatus \in OrderStatusResponses :
     \E read \in StatusReads(impl) :
       LET resolved == merchantOrderIdOf(impl,
             <<data.merchantOrderId, data.merchantTransactionId>>,
             "cancel payment", FALSE)
           state == toUpperCase(orderStatus.state)
       IN /\ pimpl' = impl
          /\ pinput' = [data |-> data, orderStatus |-> orderStatus, read |-> read]
          /\ gatewayCall' = statusCallOf(resolved, read)
          /\ presult' =
               IF ~resolved.ok
                 THEN Raised(buildError_base(impl,
                        <<"An error occurred in cancelPayment">>, resolved.error))
               ELSE IF resolved.id = <<>> THEN Returned
               ELSE IF read.throws
                 THEN Raised(buildError_base(impl,
                        <<"An error occurred in cancelPayment">>, <<"gateway error">>))
               ELSE IF alreadySucceeded(state)
                 THEN [Returned EXCEPT !.id = resolved.id, !.state = orderStatus.state]
               ELSE [Returned EXCEPT !.id = resolved.id, !.canceled = TRUE,
                                     !.state = Or(state, "CANCELLED")]
  /\ pop' = op
  /\ ppc' = "done"
  /\ enteredRetry' = FALSE
  /\ UNCHANGED sequenceCount

cancelPaymentCall == cancelPaymentRun("cancelPayment")

deletePaymentCall == cancelPaymentRun("deletePayment")

\* refundPayment runs to its end
refundPaymentCall ==
  /\ payOnly
  /\ ppc = "idle"
  /\ \E impl \in Impls, data \in RefundData, amount \in AmountInputs,
        reply \in RefundReplies :
       LET response == executeWithRetryEnd(reply)
           merchantOrderId == merchantOrderIdOf(impl,
             <<data.merchantOrderId, data.merchantTransactionId>>,
             IF impl = "core" THEN "refunding payment" ELSE "refund payment", TRUE)
           originalMerchantOrderId ==
             IF ~merchantOrderId.ok THEN merchantOrderId
             ELSE merchantOrderIdOf(impl,
                    <<data.originalTransactionId, merchantOrderId.id>>,
                    IF impl = "core" THEN "refunding payment" ELSE "refund payment", TRUE)
           normalized == normalizeAmount(amount)
           refundAmount == IF impl = "core" THEN toFixed2(Number(amount))
                           ELSE normalized.amount
           built == originalMerchantOrderId.ok /\ (impl = "core" \/ normalized.ok)
           failed(inner) ==
             Raised(buildError_base(impl, <<"An error occurred in refundPayment">>, inner))
       IN /\ pimpl' = impl
          /\ pinput' = [data |-> data, amount |-> amount, reply |-> reply]
          /\ enteredRetry' = built
          /\ gatewayCall' = IF built
                            THEN GatewayCall("refund", originalMerchantOrderId.id,
                                             refundAmount, 0)
                            ELSE NoCall
          /\ presult' =
               IF ~originalMerchantOrderId.ok
                 THEN IF impl = "core" THEN Raised(originalMerchantOrderId.error)
                      ELSE failed(originalMerchantOrderId.error)
               ELSE IF ~built THEN failed(<<"Invalid refundAmount provided">>)
               ELSE IF response.thrown
                 THEN failed(<<"An error occurred during PhonePe API call">>)
               ELSE IF isRefundResponse(response)
                 THEN [Returned EXCEPT !.id = merchantOrderId.id, !.data = data,
                                       !.added = RefundFields,
                                       !.state = response.state]
               ELSE [Returned EXCEPT !.id = merchantOrderId.id, !.data = data]
  /\ pop' = "refundPayment"
  /\ ppc' = "done"
  /\ UNCHANGED sequenceCount

\* The operation has ended; the next one can begin
providerReset ==
  /\ payOnly
  /\ ppc = "done"
  /\ ppc' = "idle"
  /\ pimpl' = "core"
  /\ pop' = "none"
  /\ pinput' = <<>>
  /\ gatewayCall' = NoCall
  /\ enteredRetry' = FALSE
  /\ presult' = NoResult
  /\ UNCHANGED sequenceCount

PayInit ==
  /\ ppc = "idle"
  /\ pimpl = "core"
  /\ pop = "none"
  /\ pinput = <<>>
  /\ sequenceCount = 0
  /\ gatewayCall = NoCall
  /\ enteredRetry = FALSE
  /\ presult = NoResult

PayNext ==
  \/ initiatePaymentCall
  \/ updatePaymentCall
  \/ getPaymentStatusCall
  \/ convertPaymentStatusCall
  \/ capturePaymentCall
  \/ cancelPaymentCall
  \/ deletePaymentCall
  \/ refundPaymentCall
  \/ providerReset

\* ========================================================================
\* Overlapping initiatePayment / updatePayment calls of one provider process.
\* A call runs without suspension up to its gateway call: the merchant order
\* id is generated (the static counter is incremented, or a UUID is drawn)
\* and the request validated; it ends when executeWithRetry has ended.

\* randomUUID() without its dashes: 32 hexadecimal digits.  The UUIDs drawn
\* in one process differ, their first 16 digits need not
RandomUuids == {Rep("f", 32), Rep("f", 16) \o Rep("e", 16), Rep("e", 32)}
NoUuid == <<>>

\* The resource ids of the calls: absent, an id, and that id followed by
\* what looks like a sequence number
IdResourceIds == {<<>>, <<"c">>, <<"c", "_", "1">>}

IdInit == paymentCalls = <<>>

PaymentCallIds == 1..Len(paymentCalls)

\* The UUIDs drawn so far
DrawnUuids == {paymentCalls[i].uuid : i \in PaymentCallIds}

\* One process runs one variant of the provider
ProcessImpls == IF paymentCalls = <<>> THEN Impls ELSE {paymentCalls[1].impl}

\* initiatePayment up to its first await: the id, the request, the throw of
\* an invalid request
initiatePaymentBegin(op) ==
  /\ idOnly
  /\ Len(paymentCalls) < MaxPaymentCalls
  /\ \E impl \in ProcessImpls, resource_id \in IdResourceIds, amount \in AmountInputs :
       \E uuid \in (IF impl = "core" THEN {NoUuid} ELSE RandomUuids \ DrawnUuids) :
         LET input == [resource_id |-> resource_id, id |-> <<>>, amount |-> amount,
                       redirectUrl |-> TRUE]
             count == IF impl = "core" THEN sequenceCount + 1 ELSE sequenceCount
             request == paymentRequest(impl, input, count, uuid)
             valid == request.built /\ validatePaymentInput(request)
         IN /\ sequenceCount' = count
            /\ paymentCalls' = Append(paymentCalls,
                 [op |-> op, impl |-> impl, resource_id |-> resource_id, uuid |-> uuid,
                  merchantOrderId |-> request.merchantOrderId,
                  overlaps |-> \E i \in PaymentCallIds : paymentCalls[i].stage = "awaiting",
                  stage |-> IF valid THEN "awaiting" ELSE "raised"])
  /\ UNCHANGED <<ppc, pimpl, pop, pinput, gatewayCall, enteredRetry, presult>>

initiatePaymentBegins == initiatePaymentBegin("initiatePayment")

\* updatePayment hands its input to initiatePayment
updatePaymentBegins == initiatePaymentBegin("updatePayment")

\* executeWithRetry has ended: the call returns its merchant order id or throws
initiatePaymentEnds ==
  /\ idOnly
  /\ \E i \in PaymentCallIds, reply \in CreateReplies :
       /\ paymentCalls[i].stage = "awaiting"
       /\ paymentCalls' = [paymentCalls EXCEPT ![i].stage =
            IF executeWithRetryEnd(reply).thrown THEN "raised" ELSE "returned"]
  /\ UNCHANGED payVars

IdNext ==
  \/ initiatePaymentBegins
  \/ updatePaymentBegins
  \/ initiatePaymentEnds

\* ========================================================================
\* The conversion of an amount to minor units (get-smallest-unit.ts).  An
\* amount is a decimal number with four fractional digits, held as its
\* count of ten-thousandths; MathBN multiplies such decimals exactly.

MaxUnitCalls == 2

\* -1.2345, 0, 0.0005, 1, 1.23, 1.2344, 1.2345, 1.2351 in ten-thousandths
UnitAmounts == {-12345, 0, 5, 10000, 12300, 12344, 12345, 12351}

\* currency codes as the caller spells them; XYZ is in no table
UnitCurrencies == {"BHD", "kwd", "Tnd", "INR", "JPY", "jpy", "XYZ"}

CURRENCY_POWER_MAP ==
  ("BIF" :> 0) @@ ("CLP" :> 0) @@ ("DJF" :> 0) @@ ("GNF" :> 0) @@
  ("JPY" :> 0) @@ ("KMF" :> 0) @@ ("KRW" :> 0) @@ ("MGA" :> 0) @@
  ("PYG" :> 0) @@ ("RWF" :> 0) @@ ("UGX" :> 0) @@ ("VND" :> 0) @@
  ("VUV" :> 0) @@ ("XAF" :> 0) @@ ("XOF" :> 0) @@ ("XPF" :> 0) @@
  ("BHD" :> 3) @@ ("IQD" :> 3) @@ ("JOD" :> 3) @@ ("KWD" :> 3) @@
  ("OMR" :> 3) @@ ("TND" :> 3)

\* Math.pow(10, power)
RECURSIVE MathPow10(_)
MathPow10(power) == IF power = 0 THEN 1 ELSE 10 * MathPow10(power - 1)

\* Math.round, Math.ceil and Math.floor of the quotient num / den, den > 0:
\* Math.round rounds a half towards +Infinity
MathRound(num, den) == (2 * num + den) \div (2 * den)
MathCeil(num, den) == -((-num) \div den)
MathFloor(num, den) == num \div den

getCurrencyMultiplier_alwaysDefault(currency) == MathPow10(2)

getCurrencyMultiplier(currency) ==
  LET currencyUpper == toUpperCase(currency)
      power == IF currencyUpper \in DOMAIN CURRENCY_POWER_MAP
               THEN CURRENCY_POWER_MAP[currencyUpper]
               ELSE 2
  IN MathPow10(power)

\* amount_ is the rounded product over the multiplier, kept as that fraction;
\* its product with the multiplier is the rounded product again
getSmallestUnit(amount, currency) ==
  LET multiplier == getCurrencyMultiplier(currency)
      amount_ == [num |-> MathRound(amount * multiplier, 10000),
                  den |-> multiplier]
      smallestAmount == (amount_.num * multiplier) \div amount_.den
      numeric == IF multiplier = 1000
                 THEN MathCeil(smallestAmount, 10) * 10
                 ELSE smallestAmount
  IN MathFloor(numeric, 1)

UnitInit == unitCalls = <<>>

getSmallestUnitCall ==
  /\ Len(unitCalls) < MaxUnitCalls
  /\ \E amount \in UnitAmounts, currency \in UnitCurrencies :
       unitCalls' = Append(unitCalls,
         [amount |-> amount, currency |-> currency,
          result |-> getSmallestUnit(amount, currency)])
  /\ unitOnly

UnitNext == getSmallestUnitCall

\* ========================================================================
\* The OAuth token cache of the axios wrapper (part_004): generateOAuthToken
\* and getAuthToken.  Time is in seconds; a token is the number of the
\* request that acquired it.

TokenCallers == 1..NumTokenCallers

NoToken == [token |-> 0, expiresAt |-> 0]
NewCaller == [pc |-> "idle", request |-> 0, token |-> 0, outcome |-> "pending"]

\* expires_in of a token response, in seconds
ExpiresIn == {300, 900}

\* The test of the cached token letting a token through at its expiresAt
cachedTokenValid_atExpiry(cache, options, time) ==
  cache # NoToken /\ options.tokenCacheEnabled /\ cache.expiresAt >= time

\* this.tokenCache && tokenCacheEnabled !== false && expiresAt > Date.now()
cachedTokenValid(cache, options, time) ==
  cache # NoToken /\ options.tokenCacheEnabled /\ cache.expiresAt > time

\* The expiry time without the margin
tokenExpiresAt_noMargin(time, expires_in) == time + expires_in

\* Date.now() + (tokenData.expires_in - 300) * 1000, in seconds
tokenExpiresAt(time, expires_in) == time + (expires_in - 300)

\* The requests to the token endpoint that have not been answered
OutstandingRequests == {r \in 1..Len(tokenRequests) : tokenRequests[r].state = "outstanding"}

TokenInit ==
  /\ tokenOptions = [constructed |-> FALSE, tokenCacheEnabled |-> TRUE]
  /\ tokenCache = NoToken
  /\ tokenNow = 0
  /\ tokenCallers = [c \in TokenCallers |-> NewCaller]
  /\ tokenRequests = <<>>

\* generateOAuthToken up to its await: the cached token is returned, or
\* axios.post(`${url}/v1/oauth/token`) is issued
generateOAuthTokenBegin ==
  /\ tokenOnly
  /\ tokenOptions.constructed
  /\ \E c \in TokenCallers :
       /\ tokenCallers[c].pc = "idle"
       /\ IF cachedTokenValid(tokenCache, tokenOptions, tokenNow)
          THEN /\ tokenCallers' = [tokenCallers EXCEPT ![c] =
                    [pc |-> "done", request |-> 0, token |-> tokenCache.token,
                     outcome |-> "returned"]]
               /\ UNCHANGED tokenRequests
          ELSE /\ Len(tokenRequests) < MaxTokenRequests
               /\ tokenRequests' = Append(tokenRequests,
                    [state |-> "outstanding", caller |-> c, issuedAt |-> tokenNow,
                     declaredExpiry |-> 0, concurrent |-> OutstandingRequests])
               /\ tokenCallers' = [tokenCallers EXCEPT ![c] =
                    [pc |-> "waiting", request |-> Len(tokenRequests) + 1, token |-> 0,
                     outcome |-> "pending"]]
  /\ UNCHANGED <<tokenCache, tokenNow, tokenOptions>>

\* The token endpoint answers: the token is cached and returned
generateOAuthTokenResponse ==
  /\ tokenOnly
  /\ \E c \in TokenCallers, expires_in \in ExpiresIn :
       LET r == tokenCallers[c].request
       IN /\ tokenCallers[c].pc = "waiting"
          /\ tokenRequests' = [tokenRequests EXCEPT
               ![r].state = "answered", ![r].declaredExpiry = tokenNow + expires_in]
          /\ tokenCache' = [token |-> r, expiresAt |-> tokenExpiresAt(tokenNow, expires_in)]
          /\ tokenCallers' = [tokenCallers EXCEPT ![c] =
               [pc |-> "done", request |-> r, token |-> r, outcome |-> "returned"]]
  /\ UNCHANGED <<tokenNow, tokenOptions>>

\* The request fails: "Failed to generate OAuth token for PhonePe API"
generateOAuthTokenFails ==
  /\ tokenOnly
  /\ \E c \in TokenCallers :
       LET r == tokenCallers[c].request
       IN /\ tokenCallers[c].pc = "waiting"
          /\ tokenRequests' = [tokenRequests EXCEPT ![r].state = "failed"]
          /\ tokenCallers' = [tokenCallers EXCEPT ![c] =
               [pc |-> "done", request |-> r, token |-> 0, outcome |-> "raised"]]
  /\ UNCHANGED <<tokenCache, tokenNow, tokenOptions>>

\* The gateway operation of a caller has ended; the caller can ask again
getAuthTokenAgain ==
  /\ tokenOnly
  /\ \E c \in TokenCallers :
       /\ tokenCallers[c].pc = "done"
       /\ tokenCallers' = [tokenCallers EXCEPT ![c] = NewCaller]
  /\ UNCHANGED <<tokenCache, tokenNow, tokenRequests, tokenOptions>>

\* Ten minutes pass
TokenTick ==
  /\ tokenOnly
  /\ tokenOptions.constructed
  /\ tokenNow < MaxTokenTicks * 600
  /\ tokenNow' = tokenNow + 600
  /\ UNCHANGED <<tokenCache, tokenCallers, tokenRequests, tokenOptions>>

\* new PhonePeWrapper(options): tokenCacheEnabled is false, or it is true or
\* absent
PhonePeWrapperConstructor ==
  /\ tokenOnly
  /\ ~tokenOptions.constructed
  /\ \E enabled \in BOOLEAN :
       tokenOptions' = [constructed |-> TRUE, tokenCacheEnabled |-> enabled]
  /\ UNCHANGED <<tokenCache, tokenNow, tokenCallers, tokenRequests>>

TokenNext ==
  \/ PhonePeWrapperConstructor
  \/ generateOAuthTokenBegin
  \/ generateOAuthTokenResponse
  \/ generateOAuthTokenFails
  \/ getAuthTokenAgain
  \/ TokenTick

\* ------------------------------------------------------------------------
\* Claims about executeWithRetry

Is5xx(error) == error.status >= 500 /\ error.status < 600

\* An error whose only classification-relevant field is a 5xx status
Only5xx(error) ==
  /\ Is5xx(error)
  /\ error.code = "none"
  /\ error.data = "none"
  /\ error.response = "none"

\* C3: while every call so far has failed with a retryable error, the call has
\* been invoked at most maxRetries times, and once it has failed maxRetries
\* times the run has ended by raising.
C3_MaxRetriesBoundsAttempts ==
  (calls > 0 /\ otherFailures = 0 /\ retryableFailures = calls)
    => /\ calls <= maxRetries
       /\ (calls = maxRetries => rpc = "done" /\ routcome = "raised")

\* C4: a run that has ended after k < maxRetries failures, all of them
\* retryable, has returned the success value after exactly k + 1 invocations.
C4_RetryThenSuccess ==
  (rpc = "done" /\ otherFailures = 0 /\ retryableFailures < maxRetries)
    => /\ routcome = "returned"
       /\ rresult = SuccessValue
       /\ calls = retryableFailures + 1

C4_Witness ==
  /\ rpc = "done"
  /\ maxRetries = 3
  /\ retryableFailures = 2
  /\ otherFailures = 0
  /\ lastError = NoError
  /\ calls = 3
  /\ rresult = SuccessValue

\* C5 (as stated): with default settings, a first failure that is an HTTP 5xx
\* ends the run, after exactly one invocation, by returning without raising
\* the value {indeterminate_due_to: "gateway_server_error"}.
C5_Original ==
  (retryableFailures = 0 /\ Only5xx(lastError)
     /\ maxRetries = DefaultMaxRetries /\ baseDelay = DefaultBaseDelay)
    => /\ rpc = "done"
       /\ routcome = "returned"
       /\ rresult = Indeterminate("gateway_server_error")
       /\ calls = 1

\* C5 (amended): with default settings, a first failure that is an HTTP 5xx
\* ends the run, after exactly one invocation, by returning without raising
\* the value {indeterminate_due_to: "phonepe_server_error"}.
C5_Amended ==
  (retryableFailures = 0 /\ Only5xx(lastError)
     /\ maxRetries = DefaultMaxRetries /\ baseDelay = DefaultBaseDelay)
    => /\ rpc = "done"
       /\ routcome = "returned"
       /\ rresult = Indeterminate("phonepe_server_error")
       /\ calls = 1

C5_Witness ==
  /\ rpc = "done"
  /\ calls = 1
  /\ lastError = [code |-> "none", status |-> 500, data |-> "none", response |-> "none"]
  /\ maxRetries = DefaultMaxRetries
  /\ baseDelay = DefaultBaseDelay
  /\ routcome = "returned"

\* C6 (as stated): after a failure whose error carries a status in 500..599,
\* whatever else the error carries, the call is never invoked again.
C6_Original ==
  [][(calls > 0 /\ Is5xx(lastError)) => calls' = calls]_retryVars

\* C6 (amended): after a failure whose error carries a status in 500..599 and
\* neither a network error code nor the RATE_LIMIT_ERROR code, the call is
\* never invoked again.
C6_Amended ==
  [][(calls > 0 /\ Is5xx(lastError)
        /\ lastError.code \notin (NetworkCodes \cup {"RATE_LIMIT_ERROR"}))
       => calls' = calls]_retryVars

C6_Witness ==
  /\ rpc = "done"
  /\ lastError.status = 599
  /\ lastError.code = "BAD_REQUEST"
  /\ lastError.data = "body"
  /\ retryableFailures = 1
  /\ routcome = "returned"
  /\ rresult = Indeterminate("phonepe_server_error")

\* C7: when the last failure was classified as non-retryable the run has ended
\* by returning the classified data, no delay was slept after that failure, and
\* if it was the first failure the call and the classifier ran exactly once.
C7_NonRetryableReturnsData ==
  (calls > 0 /\ lastError # NoError /\ ~handlePhonePeError(lastError).retry)
    => /\ rpc = "done"
       /\ routcome = "returned"
       /\ rresult = handlePhonePeError(lastError).data
       /\ Len(delays) = calls - 1
       /\ (retryableFailures = 0 => calls = 1 /\ classified = 1)

C7_Witness ==
  /\ rpc = "done"
  /\ lastError = [code |-> "BAD_REQUEST", status |-> 400, data |-> "body", response |-> "none"]
  /\ retryableFailures = 0
  /\ calls = 1
  /\ classified = 1
  /\ delays = <<>>
  /\ rresult = ErrorData("data")

\* ------------------------------------------------------------------------
\* Claims about constructWebhookEvent

\* C8: with the authorization header absent, constructWebhookEvent raises the
\* missing-authorization error, without calling the validator, without the
\* legacy fallback and without returning an event.
C8_MissingAuthorizationFails ==
  (whpc = "done" /\ whHeader = "")
    => /\ whResult.outcome = "raised"
       /\ whResult.error = "Missing authorization header for webhook validation"
       /\ whResult.wrapperCalls = 0
       /\ whResult.sdkCalls = 0
       /\ ~whResult.legacy
       /\ whResult.event = NoEvent

\* A JSON body in the legacy callback schema that carries a result code
LegacyBodyWithCode(body) ==
  /\ body.content \in LegacyContents
  /\ body.content.code # ""

\* C9: with an empty authorization header and a JSON body in the legacy
\* schema, constructWebhookEvent does not raise and returns the event whose
\* type is the body's code and whose data.object is the decoded body.
C9_EmptyHeaderFallsBackToLegacy ==
  (whpc = "done" /\ whHeader = "" /\ whBody.enc = "json" /\ LegacyBodyWithCode(whBody))
    => /\ whResult.outcome = "returned"
       /\ whResult.legacy
       /\ whResult.event.event = whBody.content.code
       /\ whResult.event.object.kind = "decodedBody"
       /\ whResult.event.object.body = whBody.content

\* Strong validation is unavailable: credentials not configured, or the
\* validator reports failure
StrongValidationUnavailable ==
  \/ ~whOptions.credentials
  \/ ~validateWebhookCallback(whOptions, whHeader, whBody).response.ok

\* C10: with an authorization header present and strong validation
\* unavailable, constructWebhookEvent does not raise, verifies no signature and
\* returns for a legacy body (direct JSON or base64) the event whose type is the
\* body's result code.
C10_UnavailableValidationFallsBackToLegacy ==
  (whpc = "done" /\ whHeader # "" /\ StrongValidationUnavailable
     /\ whBody.enc \in {"json", "base64"} /\ LegacyBodyWithCode(whBody))
    => /\ whResult.outcome = "returned"
       /\ whResult.legacy
       /\ ~whResult.verified
       /\ whResult.event.event = whBody.content.code

\* The event type the callback type of a validated callback stands for
CanonicalEventType(callbackType) ==
  CASE callbackType = "PG_ORDER_COMPLETED" -> "checkout.order.completed"
    [] callbackType = "PG_ORDER_FAILED" -> "checkout.order.failed"
    [] callbackType = "PG_REFUND_COMPLETED" -> "pg.refund.completed"
    [] callbackType = "PG_REFUND_FAILED" -> "pg.refund.failed"
    [] callbackType = "" -> "checkout.order.completed"
    [] OTHER -> callbackType

\* C11: when the signature validation has succeeded, the event type returned
\* is the fixed mapping of the callback type: the four known types map to
\* their dotted names, any other non-empty type is passed through unchanged
\* and an absent type yields checkout.order.completed.
C11_CallbackTypeMapping ==
  (whpc = "done" /\ whResult.outcome = "returned" /\ whResult.verified)
    => whResult.event.event = CanonicalEventType(whBody.content.type)

\* getWebhookActionAndData has run to its end on the inputs of the state
ActionAndDataDone == whpc = "done" /\ whAction # NoAction

\* C12: getWebhookActionAndData never raises: for every combination of
\* headers (present, absent, invalid) and raw body (JSON, base64,
\* unparseable) it returns a WebhookActionResult.
C12_NeverRaises ==
  ActionAndDataDone => whAction.outcome = "returned"

\* ------------------------------------------------------------------------
\* Claims about the provider operations

\* initiatePayment or updatePayment has handed a payment to the gateway
PaymentCreated ==
  /\ ppc = "done" /\ pop \in {"initiatePayment", "updatePayment"}
  /\ gatewayCall.kind = "createPayment"

\* The cart / resource id the payment was initiated for
GivenResourceId == OrId(pinput.resource_id, pinput.id)

\* C15: round trip of the cart id: for every resource id passed to
\* initiatePayment, the cart id handlePaymentHook derives from the generated
\* merchantOrderId (its first two "_"-separated segments joined by "_")
\* equals the original id.
C15_CartIdRoundTrip ==
  (PaymentCreated /\ pop = "initiatePayment")
    => hookCartId(gatewayCall.merchantOrderId) = GivenResourceId

\* C16: every merchantOrderId that initiatePayment or updatePayment sends to
\* the gateway is non-empty, at most 50 characters long and made of
\* characters in [A-Za-z0-9._-] only, whatever the resource id.
C16_MerchantOrderIdWellFormed ==
  PaymentCreated =>
    /\ gatewayCall.merchantOrderId # <<>>
    /\ Len(gatewayCall.merchantOrderId) <= 50
    /\ matchesCharsetPattern(gatewayCall.merchantOrderId)

\* capturePayment has ended
CaptureDone == ppc = "done" /\ pop = "capturePayment"

\* capturePayment found a merchant order id and obtained the order status
CaptureReadStatus ==
  /\ CaptureDone
  /\ merchantOrderIdOf(pimpl,
       <<pinput.data.merchantOrderId, pinput.data.merchantTransactionId>>,
       "capture payment", TRUE).ok
  /\ ~pinput.read.throws

\* The message says "Payment not in success state: <state>. Cannot capture."
NamesState(error, state) ==
  \E i \in 1..(Len(error) - 2) :
    /\ error[i] = "Payment not in success state: "
    /\ error[i + 1] = state
    /\ error[i + 2] = ". Cannot capture."

\* C17: capturePayment returns a captured result only when the state of the
\* order status is SUCCESS, COMPLETED or PAID in any letter case; for every
\* other state it fails with an error naming the state (UNKNOWN for an
\* absent state), and the only gateway call it makes is the status read.
C17_CaptureOnlyOnSuccess ==
  CaptureDone =>
    LET state == toUpperCase(pinput.orderStatus.state)
    IN /\ presult.captured =>
            /\ state \in SuccessStates
            /\ presult.outcome = "returned"
            /\ CaptureReadStatus
       /\ (CaptureReadStatus /\ state \notin SuccessStates) =>
            /\ presult.outcome = "raised"
            /\ ~presult.captured
            /\ NamesState(presult.error, Or(state, "UNKNOWN"))
       /\ (CaptureReadStatus /\ state \in SuccessStates) => presult.captured
       /\ gatewayCall.kind \in {"none", "getOrderStatus"}
       /\ ~enteredRetry

\* A capture of a payment whose state is "pending" fails naming PENDING
C17_Witness ==
  /\ CaptureReadStatus
  /\ pinput.orderStatus.state = "pending"
  /\ presult.outcome = "raised"
  /\ NamesState(presult.error, "PENDING")

\* A canonical status has been computed from the order status of the state
StatusDone ==
  /\ ppc = "done" /\ pop \in {"getPaymentStatus", "convertPaymentStatus"}
  /\ presult.outcome = "returned"

\* The canonical status the variant computes for an order status
StatusOf(impl, orderStatus) ==
  IF impl = "part003" THEN convertPaymentStatus(orderStatus.state, orderStatus.errorCode)
  ELSE getStatus(orderStatus)

UpperCased(orderStatus) ==
  [state |-> toUpperCase(orderStatus.state),
   errorCode |-> toUpperCase(orderStatus.errorCode),
   detailedErrorCode |-> toUpperCase(orderStatus.detailedErrorCode)]

WithoutCodes(orderStatus) ==
  [orderStatus EXCEPT !.errorCode = "", !.detailedErrorCode = ""]

StateKey == toUpperCase(pinput.orderStatus.state)
CodeKey == Or(toUpperCase(pinput.orderStatus.errorCode),
              toUpperCase(pinput.orderStatus.detailedErrorCode))

AuthorizedKeys == {"COMPLETED", "PAID", "SUCCESS", "PAYMENT_SUCCESS"}
ErrorKeys == {"FAILED", "PAYMENT_ERROR", "PAYMENT_DECLINED", "BAD_REQUEST",
              "INTERNAL_SERVER_ERROR", "AUTHORIZATION_FAILED"}
CanceledKeys == {"CANCELLED", "PAYMENT_CANCELLED", "TRANSACTION_NOT_FOUND"}

\* The status is one of the four, does not depend on the letter case, and
\* depends on the codes only when the state is empty
StatusIsFunctionOfState ==
  /\ presult.status \in {"AUTHORIZED", "PENDING", "ERROR", "CANCELED"}
  /\ presult.status = StatusOf(pimpl, UpperCased(pinput.orderStatus))
  /\ StateKey # "" => presult.status = StatusOf(pimpl, WithoutCodes(pinput.orderStatus))

\* C19 as stated: the canonical status is a function of the state compared
\* case-insensitively (the code counts only when the state is empty), is one
\* of AUTHORIZED, PENDING, ERROR, CANCELED, and every unknown or missing
\* state maps to PENDING, never to ERROR or CANCELED.
C19_Original ==
  StatusDone =>
    /\ StatusIsFunctionOfState
    /\ StateKey \notin (AuthorizedKeys \cup ErrorKeys \cup CanceledKeys)
         => presult.status = "PENDING"

\* C19 amended: as above, but PENDING is the status of every unknown state
\* and of a missing state without a recognised error code; a missing state
\* with an error code has the status of that code.
C19_Amended ==
  StatusDone =>
    /\ StatusIsFunctionOfState
    /\ Or(StateKey, CodeKey) \notin (AuthorizedKeys \cup ErrorKeys \cup CanceledKeys)
         => presult.status = "PENDING"
    /\ presult.status = "ERROR" => Or(StateKey, CodeKey) \in ErrorKeys
    /\ presult.status = "CANCELED" => Or(StateKey, CodeKey) \in CanceledKeys
    /\ presult.status = "AUTHORIZED" => Or(StateKey, CodeKey) \in AuthorizedKeys

\* getPaymentStatus on an order status without state whose error code is
\* written in lower case answers ERROR
C19_Witness ==
  /\ StatusDone /\ pop = "getPaymentStatus"
  /\ pinput.orderStatus.state = ""
  /\ pinput.orderStatus.errorCode = "payment_error"
  /\ presult.status = "ERROR"

\* A positive integer (an amount in minor units)
PositiveInteger(x) == x.kind = "finite" /\ x.milli > 0 /\ x.milli % 1000 = 0

\* The operation of the state was given no merchant order id at all
NoMerchantOrderIdGiven ==
  /\ pop \in {"getPaymentStatus", "capturePayment", "refundPayment"}
  /\ pinput.data.merchantOrderId = <<>>
  /\ pinput.data.merchantTransactionId = <<>>
  /\ pinput.data.id = <<>>

\* The operation failed before any gateway call and outside the retry loop
FailedFast == presult.outcome = "raised" /\ gatewayCall = NoCall /\ ~enteredRetry

\* C20: no gateway call carries invalid input: a payment creation carries a
\* non-empty merchantOrderId, a positive integer amount and an expireAfter
\* within [300, 3600]; a status or refund call carries a non-empty merchant
\* order id; an operation given no merchant order id, or a payment creation
\* given an amount that is no positive number, fails fast.
C20_NoInvalidGatewayCall ==
  ppc = "done" =>
    /\ gatewayCall.kind = "createPayment" =>
         /\ gatewayCall.merchantOrderId # <<>>
         /\ PositiveInteger(gatewayCall.amount)
         /\ gatewayCall.expireAfter >= 300 /\ gatewayCall.expireAfter <= 3600
    /\ gatewayCall.kind \in {"getOrderStatus", "refund"} =>
         gatewayCall.merchantOrderId # <<>>
    /\ NoMerchantOrderIdGiven => FailedFast
    /\ (pop \in {"initiatePayment", "updatePayment"}
        /\ (Number(pinput.amount).kind # "finite" \/ notPositive(Number(pinput.amount))))
         => FailedFast

\* ------------------------------------------------------------------------
\* Claims about the OAuth token cache

\* C18: when several operations request the OAuth token while no valid
\* cached token exists, at most one request to the token endpoint is
\* outstanding at any time, and callers whose requests were outstanding
\* together hold the token of one acquisition.
C18_SingleTokenRequest ==
  /\ Cardinality(OutstandingRequests) <= 1
  /\ \A c1, c2 \in TokenCallers :
       (/\ tokenCallers[c1].outcome = "returned" /\ tokenCallers[c2].outcome = "returned"
        /\ tokenCallers[c1].request # 0 /\ tokenCallers[c2].request # 0
        /\ tokenCallers[c1].request
             \in tokenRequests[tokenCallers[c2].request].concurrent)
         => tokenCallers[c1].token = tokenCallers[c2].token

\* The cached token may be used: caching is not disabled and the time is
\* before the declared expiry of the cached token less 300 seconds
CacheUsable ==
  /\ tokenOptions.tokenCacheEnabled
  /\ tokenCache # NoToken
  /\ tokenNow < tokenRequests[tokenCache.token].declaredExpiry - 300

\* A call that is answered without suspension was answered from the cache
\* while the cache was usable; a call that finds it not usable requests a
\* new token
TokenCacheStep ==
  \A c \in TokenCallers :
    /\ (tokenCallers[c].pc = "idle" /\ tokenCallers'[c].pc = "done") =>
         /\ CacheUsable
         /\ tokenCallers'[c].token = tokenCache.token
         /\ tokenRequests' = tokenRequests
    /\ (tokenCallers[c].pc = "idle" /\ tokenCallers'[c].pc = "waiting") =>
         /\ ~CacheUsable
         /\ Len(tokenRequests') = Len(tokenRequests) + 1
         /\ tokenRequests'[Len(tokenRequests')].state = "outstanding"

\* C39: the token cache returns a cached OAuth token only while the current
\* time is before (time of issue + declared expires_in - 300 seconds) and
\* token caching is not disabled; at or after that moment, or with caching
\* disabled, the next call requests a new token, so a token is never handed
\* out from the cache within 5 minutes of its declared expiry.
C39_CachedTokenOnlyBeforeMargin == [][TokenCacheStep]_tokenVars

\* A call was answered from the cache, and at the moment the margin of the
\* cached token began the next call requested a new token
C39_Witness ==
  /\ tokenOptions.tokenCacheEnabled
  /\ Len(tokenRequests) >= 2
  /\ tokenRequests[1].state = "answered"
  /\ tokenRequests[2].issuedAt = tokenRequests[1].declaredExpiry - 300
  /\ tokenRequests[2].issuedAt > 0
  /\ \E c \in TokenCallers :
       /\ tokenCallers[c].outcome = "returned"
       /\ tokenCallers[c].request = 0
       /\ tokenCallers[c].token = 1

\* The gateway threw an error that executeWithRetry does not retry: a 5xx
\* status, an error with a body, or an error with neither
NegativeOutcome ==
  /\ PaymentCreated
  /\ pinput.reply.error # NoError
  /\ ~CarriesRetryMark(pinput.reply.error)

\* C21: when the creation of the payment ends with an HTTP 5xx, an unknown
\* error or a structured error body, initiatePayment does not raise: it
\* returns a session whose id and data.merchantOrderId are the generated
\* merchantOrderId and whose state is PENDING.
C21_PendingOnNegativeOutcome ==
  NegativeOutcome =>
    /\ presult.outcome = "returned"
    /\ presult.id = gatewayCall.merchantOrderId
    /\ presult.merchantOrderId = gatewayCall.merchantOrderId
    /\ presult.id # <<>>
    /\ presult.state = "PENDING"

\* initiatePayment has returned after the gateway threw an error whose body
\* names an orderId and the state FAILED
C21_Witness ==
  /\ NegativeOutcome
  /\ pop = "initiatePayment"
  /\ "orderId" \in pinput.reply.keys
  /\ pinput.reply.state = "FAILED"
  /\ presult.outcome = "returned"
  /\ presult.state = "PENDING"

\* refundPayment has come back from executeWithRetry with a result
RefundResult == executeWithRetryEnd(pinput.reply)
RefundAnswered ==
  /\ ppc = "done" /\ pop = "refundPayment"
  /\ gatewayCall.kind = "refund"
  /\ ~RefundResult.thrown

\* C22: refundPayment adds refundId, refundAmount and refundState to the data
\* only when the result of the gateway call has refundId, amount and state;
\* for every other result of executeWithRetry (indeterminate marker, error
\* body, unexpected shape) it returns the input data unchanged and does not
\* raise.
C22_RefundFieldsOnlyFromRefundResponse ==
  RefundAnswered =>
    /\ presult.outcome = "returned"
    /\ presult.data = pinput.data
    /\ IF {"refundId", "amount", "state"} \subseteq RefundResult.keys
         THEN presult.added = RefundFields
         ELSE presult.added = {}

\* refundPayment has returned the data as given after a response that names
\* a refundId and a state but no amount
C22_Witness ==
  /\ RefundAnswered
  /\ pinput.reply.error = NoError
  /\ RefundResult.keys = {"refundId", "state"}
  /\ presult.outcome = "returned"
  /\ presult.added = {}
  /\ presult.data = pinput.data

\* constructWebhookEvent or getWebhookActionAndData has handled a callback
WebhookHandled == whpc = "done"

\* The body is JSON neither as it stands nor after base64 decoding
Unparseable(body) ==
  /\ ~JSONparse(body).ok
  /\ ~(atob(body).ok /\ JSONparse(atob(body).text).ok)

\* C23: with an authorization header present, a body that cannot be parsed
\* as JSON (directly or after base64 decoding) makes constructWebhookEvent
\* return the error-class event PAYMENT_ERROR with id "error_id" instead of
\* raising, whichever path (SDK validation, legacy fallback) handles it.
C23_UnparseableBodyIsErrorEvent ==
  (WebhookHandled /\ whHeader # "" /\ Unparseable(whBody)) =>
    /\ whResult.outcome = "returned"
    /\ whResult.event.event = "PAYMENT_ERROR"
    /\ whResult.event.id = "error_id"

\* The legacy fallback of variant core has answered an unparseable body that
\* came with an authorization header and configured credentials
C23_Witness ==
  /\ WebhookHandled /\ whimpl = "core"
  /\ whHeader = "valid" /\ whOptions.credentials /\ whOptions.sdkValidateCallback
  /\ Unparseable(whBody)
  /\ whResult.legacy
  /\ whResult.sdkCalls > 0
  /\ whResult.event.id = "error_id"

\* getWebhookActionAndData received an error-class event from
\* constructWebhookEvent: validation failed or the body could not be parsed
ErrorClassEvent ==
  /\ ActionAndDataDone
  /\ whResult.outcome = "returned"
  /\ whResult.event.event = "PAYMENT_ERROR"
  /\ whResult.event.object.kind \in {"validationError", "parseError"}

\* C24: when constructWebhookEvent yields an error-class event
\* (PAYMENT_ERROR, from failed validation or an unparseable body),
\* getWebhookActionAndData never returns the action SUCCESSFUL ("captured"),
\* whatever state the unverified payload claims.
C24_ErrorEventNeverSuccessful ==
  ErrorClassEvent => whAction.action # "captured"

\* The class the specification's table gives an error, its rows read in order
ErrorClass(error) ==
  IF error.code \in {"ECONNREFUSED", "ETIMEDOUT", "ENOTFOUND"}
       \/ error.status = 429 \/ error.code = "RATE_LIMIT_ERROR"
    THEN "retry"
  ELSE IF error.status \in 500..599 THEN "server_error"
  ELSE IF error.data # "none" THEN "data"
  ELSE IF error.response # "none" THEN "response"
  ELSE "unknown_error"

\* The handled error of a class
HandledAs(class) ==
  CASE class = "retry" -> [retry |-> TRUE, data |-> NoData]
    [] class = "server_error" ->
         [retry |-> FALSE, data |-> Indeterminate("phonepe_server_error")]
    [] class \in {"data", "response"} -> [retry |-> FALSE, data |-> ErrorData(class)]
    [] OTHER -> [retry |-> FALSE, data |-> Indeterminate("unknown_error")]

\* The error the last call failed with was classified by the table: a
\* retryable one is slept on or raised when the attempts are used up, any
\* other one ends the run with the data of its class
LastErrorClassified ==
  lastError # NoError =>
    /\ rpc \in {"sleep", "call"} => ErrorClass(lastError) = "retry"
    /\ (rpc = "done" /\ routcome = "raised") => ErrorClass(lastError) = "retry"
    /\ (rpc = "done" /\ routcome = "returned") =>
         /\ ErrorClass(lastError) # "retry"
         /\ rresult = HandledAs(ErrorClass(lastError)).data

\* C34: the error classifier is a pure, total function that puts every
\* error value in exactly one class, applying the rows in order: retry when
\* code is ECONNREFUSED, ETIMEDOUT or ENOTFOUND, or status is 429, or code is
\* RATE_LIMIT_ERROR; otherwise the server-error indeterminate marker when
\* status is in 500..599; otherwise the error's data/response body as the
\* result when it has one; otherwise {indeterminate_due_to: "unknown_error"}.
C34_ClassifierFollowsTable ==
  /\ \A error \in Errors : handlePhonePeError(error) = HandledAs(ErrorClass(error))
  /\ LastErrorClassified

\* An error with status 500 that carries a body ended the run with the
\* server-error marker, not with its body
C34_Witness ==
  /\ rpc = "done" /\ routcome = "returned"
  /\ lastError.status = 500 /\ lastError.data # "none"
  /\ lastError.code \notin NetworkCodes \cup {"RATE_LIMIT_ERROR"}
  /\ rresult = Indeterminate("phonepe_server_error")
  /\ classified = 1

\* The delay slept before the n-th retry lies between half of
\* baseDelay * 2^(n-1) and baseDelay * 2^(n-1) (delays are in ms * 1000)
DelayInJitterBounds(n) ==
  /\ 2 * delays[n] >= baseDelay * Pow2(n - 1) * 1000
  /\ delays[n] <= baseDelay * Pow2(n - 1) * 1000

\* C35: the delay slept before the n-th retry (n = 1, 2, ...) lies in
\* [baseDelay * 2^(n-1) / 2, baseDelay * 2^(n-1)] for every jitter value, so
\* each retry's delay is greater than or equal to the previous retry's delay.
C35_BackoffIsMonotonic ==
  /\ \A n \in 1..Len(delays) : DelayInJitterBounds(n)
  /\ \A n \in 2..Len(delays) : delays[n] >= delays[n - 1]

\* The first retry slept with the largest jitter and the second one with
\* the smallest: the two delays are as close as they get
C35_Witness ==
  /\ Len(delays) >= 2
  /\ delays[1] = baseDelay * 999
  /\ delays[2] = baseDelay * 2 * 500
  /\ baseDelay = DefaultBaseDelay

\* The id-bearing object of the callback an event was built from: the payload
\* of a validated or rejected v2 callback, the data of a legacy callback,
\* nothing for a body that could not be parsed
IdFieldsOf(result, body) ==
  CASE result.event.object.kind \in {"validated", "validationError"} -> body.content.payload
    [] result.event.object.kind = "decodedBody" -> body.content.data
    [] OTHER -> AbsentFields

IdSentinels == {"unknown", "error_id"}

\* C36: in all three outcome paths of constructWebhookEvent (validated,
\* legacy fallback, parse error) the returned event has a non-empty id chosen
\* by probing in this order: the explicit order id, then the explicit
\* transaction id, then any other discoverable id field, and only when none
\* is present the sentinel "unknown" (or "error_id" in the error path).
C36_IdProbedInOrder ==
  (WebhookHandled /\ whResult.outcome = "returned") =>
    LET fields == IdFieldsOf(whResult, whBody)
        id == whResult.event.id
    IN /\ id # ""
       /\ fields.merchantOrderId # "" => id = fields.merchantOrderId
       /\ (fields.merchantOrderId = "" /\ fields.merchantTransactionId # "")
            => id \in {fields.merchantTransactionId, fields.orderId}
       /\ id \in IdSentinels =>
            /\ fields.merchantOrderId = ""
            /\ fields.merchantTransactionId = ""
            /\ fields.orderId = ""

\* cancelPayment or deletePayment has ended
CancelDone == ppc = "done" /\ pop \in {"cancelPayment", "deletePayment"}

\* It found a merchant order id and obtained the order status
CancelReadStatus ==
  LET resolved == merchantOrderIdOf(pimpl,
        <<pinput.data.merchantOrderId, pinput.data.merchantTransactionId>>,
        "cancel payment", FALSE)
  IN /\ CancelDone
     /\ resolved.ok /\ resolved.id # <<>>
     /\ ~pinput.read.throws

\* C38: cancelPayment (and deletePayment, which delegates to it) never
\* returns canceled: true when the gateway reports the order state as
\* SUCCESS, COMPLETED or PAID; in that case it returns the gateway's order
\* status unchanged.
C38_NoCancelAfterSuccess ==
  CancelDone =>
    /\ (CancelReadStatus /\ toUpperCase(pinput.orderStatus.state) \in SuccessStates) =>
         /\ presult.outcome = "returned"
         /\ ~presult.canceled
         /\ presult.state = pinput.orderStatus.state
    /\ presult.canceled =>
         /\ CancelReadStatus
         /\ toUpperCase(pinput.orderStatus.state) \notin SuccessStates

\* deletePayment of a payment the gateway reports as "Paid" returned that
\* order status, not a cancellation
C38_Witness ==
  /\ CancelReadStatus
  /\ pop = "deletePayment"
  /\ pinput.orderStatus.state = "Paid"
  /\ presult.outcome = "returned"
  /\ presult.state = "Paid"
  /\ ~presult.canceled

\* ------------------------------------------------------------------------
\* Claims about the status cache

CallsFor(id) == {c \in 1..Len(statusCalls) : statusCalls[c].id = id}
CallsForKey(key) ==
  {c \in 1..Len(statusCalls) :
     inFlightKey(statusCalls[c].id, statusCalls[c].withDetails) = key}
RequestsFor(id) == {r \in 1..Len(requests) : requests[r].id = id}
RequestsForKey(key) == {r \in 1..Len(requests) : RequestKey(r) = key}
Outstanding(rs) == {r \in rs : requests[r].stage = "pending"}
\* The calls that were not answered from the cache
Uncached(cs) == {c \in cs : statusCalls[c].via # "cache"}

\* Every call so far asked for details, as every caller in the provider does
OnlyDetailedCalls == \A c \in 1..Len(statusCalls) : statusCalls[c].withDetails

\* C2 (as stated): from a cold cache, the calls for one merchantOrderId that
\* arrive before a fetch has settled share exactly one gateway call, at no
\* moment is more than one gateway call outstanding for that id, and a call
\* that arrives within the TTL after a fetch for the id has settled, whatever
\* its outcome, does not call the gateway.
C2_Original ==
  OnlyDetailedCalls =>
    \A id \in OrderIds :
      /\ Cardinality(Outstanding(RequestsFor(id))) <= 1
      /\ (Uncached(CallsFor(id)) # {} /\ RequestsFor(id) \cap SettledRequests = {})
           => \E r \in RequestsFor(id) :
                /\ RequestsFor(id) = {r}
                /\ \A c \in Uncached(CallsFor(id)) : statusCalls[c].request = r
      /\ \A c \in CallsFor(id) : \A r \in RequestsFor(id) \cap statusCalls[c].settled :
           statusCalls[c].at < requests[r].settledAt + STATUS_CACHE_TTL_MS
             => statusCalls[c].via # "gateway"

\* C2 (amended): from a cold cache, the calls for one (merchantOrderId,
\* withDetails) key that arrive before a fetch has settled share exactly one
\* gateway call, at no moment is more than one gateway call outstanding for
\* that key, and a call that arrives within the TTL after a fetch for the key
\* has settled successfully does not call the gateway.
C2_Amended ==
  \A key \in InFlightKeys :
    /\ Cardinality(Outstanding(RequestsForKey(key))) <= 1
    /\ (Uncached(CallsForKey(key)) # {} /\ RequestsForKey(key) \cap SettledRequests = {})
         => \E r \in RequestsForKey(key) :
              /\ RequestsForKey(key) = {r}
              /\ \A c \in Uncached(CallsForKey(key)) : statusCalls[c].request = r
    /\ \A c \in CallsForKey(key) : \A r \in RequestsForKey(key) \cap statusCalls[c].settled :
         (requests[r].outcome = "ok"
            /\ statusCalls[c].at < requests[r].settledAt + STATUS_CACHE_TTL_MS)
           => statusCalls[c].via # "gateway"

\* Two overlapping calls shared one fetch, it settled successfully, and a third
\* call within the TTL was served from the cache
C2_Witness ==
  /\ Len(statusCalls) = 3
  /\ Len(requests) = 1
  /\ \A c \in 1..3 : statusCalls[c].id = "cart_01_1" /\ statusCalls[c].withDetails
  /\ statusCalls[1].via = "gateway"
  /\ statusCalls[2].via = "inflight"
  /\ statusCalls[2].settled = {}
  /\ statusCalls[3].via = "cache"
  /\ statusCalls[3].settled = {1}
  /\ statusCalls[3].at = TickMs
  /\ requests[1].outcome = "ok"
  /\ requests[1].settledAt = 0
  /\ requests[1].stage = "done"

\* Positions a fetch can have in requests
RequestIds == 1..MaxStatusCalls

\* The gateway call behind fetch r has settled and its .finally callback has
\* not run yet
AwaitsFinally(r) ==
  r <= Len(requests) /\ requests[r].stage \in {"fulfilled", "rejected"}

\* The handle of fetch r is gone from the in-flight map and its callers have
\* their answer
HandleRemoved(r) ==
  /\ r <= Len(requests) /\ requests[r].stage = "done"
  /\ inFlightStatusRequests[RequestKey(r)] # r

\* The fetches for id that failed
FailedRequests(id) == {r \in RequestsFor(id) : requests[r].outcome = "fail"}

\* Call c is the first call for its id made after the handle of fetch r was
\* removed
NextCallAfter(c, r) ==
  /\ requests[r].id = statusCalls[c].id
  /\ r \in statusCalls[c].removed
  /\ \A b \in 1..(c - 1) :
       statusCalls[b].id = statusCalls[c].id => r \notin statusCalls[b].removed

\* What holds in every state for a fetch that failed
FailedFetchLeavesNoTrace ==
  \A id \in OrderIds : \A r \in FailedRequests(id) :
    /\ statusCache[id].request # r
    /\ requests[r].stage = "done" =>
         /\ HandleRemoved(r)
         /\ requests[r].delivered = "fail"
    /\ \A c \in CallsFor(id) :
         /\ statusCalls[c].request = r => statusCalls[c].via # "cache"
         /\ NextCallAfter(c, r) =>
              /\ statusCalls[c].via = "gateway"
              /\ statusCalls[c].request # r

\* C26: after the gateway call behind an in-flight status fetch settles,
\* successfully or with a failure, its pending-result handle is removed; a
\* failed fetch writes nothing to the status cache, every caller attached to
\* it receives that failure, and the next getOrderStatusWithCache call for
\* the same id issues a new gateway call.  Every call asks for details, as
\* every caller in the provider does.
C26_SettledFetchIsRemoved ==
  /\ [](OnlyDetailedCalls => FailedFetchLeavesNoTrace)
  /\ [](\A r \in RequestIds :
          (r <= Len(requests) /\ requests[r].stage = "done") => HandleRemoved(r))
  /\ \A r \in RequestIds : AwaitsFinally(r) ~> HandleRemoved(r)

\* A fetch failed, a second caller had attached to it, its handle was
\* removed, and the next call for the id went to the gateway again
C26_Witness ==
  /\ Len(statusCalls) = 3 /\ Len(requests) = 2
  /\ OnlyDetailedCalls
  /\ statusCalls[1].via = "gateway" /\ statusCalls[1].request = 1
  /\ statusCalls[2].via = "inflight" /\ statusCalls[2].request = 1
  /\ requests[1].outcome = "fail" /\ requests[1].delivered = "fail"
  /\ HandleRemoved(1)
  /\ ~statusCache["cart_01_1"].present
  /\ NextCallAfter(3, 1)
  /\ statusCalls[3].via = "gateway" /\ statusCalls[3].request = 2

\* The entry of the cache is what one successful fetch wrote: its response,
\* expiring 5 s after that fetch completed
WrittenByOneFetch(entry) ==
  /\ entry.request \in 1..Len(requests)
  /\ requests[entry.request].outcome = "ok"
  /\ entry.data = requests[entry.request].data
  /\ entry.expiresAt = requests[entry.request].settledAt + STATUS_CACHE_TTL_MS

\* What holds of the cache and of the answers given from it in every state
FreshEntriesOnly ==
  /\ \A id \in OrderIds : statusCache[id].present => WrittenByOneFetch(statusCache[id])
  /\ \A c \in 1..Len(statusCalls) :
       statusCalls[c].via = "cache" =>
         /\ statusCalls[c].request \in 1..Len(requests)
         /\ requests[statusCalls[c].request].id = statusCalls[c].id
         /\ requests[statusCalls[c].request].outcome = "ok"
         /\ statusCalls[c].data = requests[statusCalls[c].request].data
         /\ statusCalls[c].at <
              requests[statusCalls[c].request].settledAt + STATUS_CACHE_TTL_MS

\* A call that finds an expired entry removes it and is answered by a
\* gateway call; a step that changes an entry removes it or puts the
\* response of the fetch that settles in that step in its place
ExpiredEntryEvicted ==
  /\ Len(statusCalls') = Len(statusCalls) + 1 =>
       LET call == statusCalls'[Len(statusCalls')]
           cacheEntry == statusCache[call.id]
       IN (cacheEntry.present /\ cacheEntry.expiresAt <= now) =>
            /\ ~statusCache'[call.id].present
            /\ call.via \in {"gateway", "inflight"}
            /\ call.request # cacheEntry.request
            /\ requests'[call.request].stage \in {"pending", "fulfilled", "rejected"}
  /\ \A id \in OrderIds :
       statusCache'[id] # statusCache[id] =>
         \/ statusCache'[id] = NoCacheEntry
         \/ /\ statusCache'[id].expiresAt = now + STATUS_CACHE_TTL_MS
            /\ statusCache'[id].request # statusCache[id].request
            /\ requests[statusCache'[id].request].stage = "pending"
            /\ requests'[statusCache'[id].request].stage = "fulfilled"

\* C27: getOrderStatusWithCache never returns a cached entry at or after its
\* expiresAt (completion time of the fetch + 5 seconds): an expired entry is
\* removed on the next access for that id and that access obtains the status
\* from a gateway call; an entry is only ever replaced wholesale, never
\* updated in place.
C27_NoExpiredEntryServed ==
  /\ []FreshEntriesOnly
  /\ [][ExpiredEntryEvicted]_cacheVars

\* A fetch completed at 0, a call at 2500 was answered from the cache, and
\* the call at 5000, the expiresAt of the entry, removed the entry and
\* called the gateway
C27_Witness ==
  /\ Len(statusCalls) = 3 /\ Len(requests) = 2
  /\ requests[1].outcome = "ok" /\ requests[1].settledAt = 0
  /\ statusCalls[2].via = "cache" /\ statusCalls[2].at = TickMs
  /\ statusCalls[2].request = 1
  /\ statusCalls[3].at = STATUS_CACHE_TTL_MS
  /\ statusCalls[3].via = "gateway" /\ statusCalls[3].request = 2
  /\ requests[2].stage = "pending"
  /\ ~statusCache[statusCalls[3].id].present

Unsettled(key) == {r \in RequestsForKey(key) : requests[r].stage # "done"}

\* C29: the in-flight map of the status cache holds an entry for a key
\* exactly while a gateway status call for that key is unsettled: it never
\* holds two fetches for one key, and whenever no status call is outstanding
\* the map is empty (no entry leaks after any sequence of successes and
\* failures).
C29_InFlightMapIsExact ==
  /\ \A key \in InFlightKeys :
       /\ Cardinality(Unsettled(key)) <= 1
       /\ Cardinality(Outstanding(RequestsForKey(key))) <= 1
       /\ inFlightStatusRequests[key] # 0 <=> Unsettled(key) # {}
       /\ inFlightStatusRequests[key] # 0 => Unsettled(key) = {inFlightStatusRequests[key]}
  /\ (\A r \in 1..Len(requests) : requests[r].stage = "done")
       => \A key \in InFlightKeys : inFlightStatusRequests[key] = 0

\* One fetch succeeded and one failed, both for the same key, a caller had
\* attached to the second, and the map is empty again
C29_Witness ==
  /\ Len(requests) = 2 /\ Len(statusCalls) = 3
  /\ RequestKey(1) = RequestKey(2)
  /\ requests[1].outcome = "ok" /\ requests[1].stage = "done"
  /\ requests[2].outcome = "fail" /\ requests[2].stage = "done"
  /\ statusCalls[3].via = "inflight" /\ statusCalls[3].request = 2
  /\ \A key \in InFlightKeys : inFlightStatusRequests[key] = 0

\* ------------------------------------------------------------------------
\* Claims about handlePaymentHook

\* The error codes of a transient reconciliation conflict: serialization
\* failure and unique-constraint collision
TransientConflictCodes == {"SERIALIZATION_FAILURE", "23505"}

\* Delivery d made no call to a host service
NoHostCall(d) ==
  /\ deliveries[d].lookup = "none" /\ deliveries[d].key = "none"
  /\ deliveries[d].completeCalls = 0 /\ deliveries[d].captureCalls = 0

\* C13: handlePaymentHook returns exactly one of 200, 204, 400, 409: 400
\* when the payload carries neither merchantOrderId nor
\* merchantTransactionId, decided before any host call; 204 when the event
\* type is not a recognised success, failure or refund type; 409 when the
\* completion of a success-class event fails with a transient conflict;
\* 200 in every other case.
C13_StatusCodes ==
  \A d \in Deliveries :
    LET delivery == deliveries[d]
    IN delivery.pc = "done" =>
         /\ delivery.statusCode \in {200, 204, 400, 409}
         /\ delivery.statusCode =
              (CASE delivery.merchantOrderId = NoId -> 400
                 [] eventClass(delivery.eventType) = "unhandled" -> 204
                 [] delivery.errCode \in TransientConflictCodes -> 409
                 [] OTHER -> 200)
         /\ delivery.statusCode = 400 => NoHostCall(d)

CartHadNoOrder(cart) == ~committedOrder(cart).exists \/ hostCalls.completions > 0

\* d1 and d2 are finished deliveries of one success-class event (same event
\* id) for one existing cart that had no order, no other delivery concerns
\* that cart, and the host declined neither completion
DuplicateDeliveries(d1, d2) ==
  /\ d1 # d2
  /\ CartHadNoOrder(deliveries[d1].cartId)
  /\ deliveries[d1].pc = "done" /\ deliveries[d2].pc = "done"
  /\ eventClass(deliveries[d1].eventType) = "success"
  /\ eventClass(deliveries[d2].eventType) = "success"
  /\ deliveries[d1].eventId = deliveries[d2].eventId
  /\ deliveries[d1].cartId \in Carts
  /\ deliveries[d1].cartId = deliveries[d2].cartId
  /\ deliveries[d1].completion # "declined" /\ deliveries[d2].completion # "declined"
  /\ \A e \in Deliveries \ {d1, d2} : deliveries[e].cartId # deliveries[d1].cartId

\* Delivery d completed the cart and returned 200
Completed(d) ==
  /\ deliveries[d].lookup = "missing"
  /\ deliveries[d].completeCalls = 1
  /\ deliveries[d].completion = "performed"
  /\ deliveries[d].captureCalls = 1
  /\ deliveries[d].statusCode = 200

\* Delivery d observed the existing order, made no idempotency-record or
\* completion call and returned 200
ObservedOrder(d) ==
  /\ deliveries[d].lookup = "found"
  /\ deliveries[d].key = "none"
  /\ deliveries[d].completeCalls = 0
  /\ deliveries[d].captureCalls = 0
  /\ deliveries[d].statusCode = 200

\* Delivery d found no order, retrieved the finished idempotency record and
\* invoked the completion again, which the host replayed
ReplayedCompletion(d) ==
  /\ deliveries[d].lookup = "missing"
  /\ deliveries[d].key = "retrieved"
  /\ deliveries[d].completeCalls = 1
  /\ deliveries[d].completion = "replayed"
  /\ deliveries[d].captureCalls = 0
  /\ deliveries[d].statusCode = 200

\* Delivery d found neither order nor idempotency record, collided on the
\* creation of the record and returned 409
LostRace(d) ==
  /\ deliveries[d].lookup = "missing"
  /\ deliveries[d].key = "none"
  /\ deliveries[d].completeCalls = 0
  /\ deliveries[d].errCode = "23505"
  /\ deliveries[d].statusCode = 409

\* C1 (as stated): of two deliveries of one success event for a cart without
\* order, in every interleaving, the cart is completed exactly once, by one of
\* them, and the other one observes the existing order and returns 200 without
\* invoking the completion.
C1_Original ==
  \A d1, d2 \in Deliveries :
    DuplicateDeliveries(d1, d2)
      => /\ hostCalls.completions = 1
         /\ Completed(d1) \/ Completed(d2)
         /\ Completed(d1) => (ObservedOrder(d2))

\* C1 (amended): of two deliveries of one success event for a cart without
\* order, in every interleaving, the cart is completed exactly once, by one of
\* them, which returns 200; the other one observes the existing order and
\* returns 200 without invoking the completion, or it looked the order up too
\* early and then either invokes the completion with the same idempotency
\* record, which the host replays (200), or collides on the creation of the
\* record (409).
C1_Amended ==
  \A d1, d2 \in Deliveries :
    DuplicateDeliveries(d1, d2)
      => /\ hostCalls.completions = 1
         /\ Completed(d1) \/ Completed(d2)
         /\ Completed(d1) => (ObservedOrder(d2) \/ ReplayedCompletion(d2) \/ LostRace(d2))

\* The second delivery looked the order up before the first one committed and
\* collided on the idempotency record
C1_Witness ==
  /\ DuplicateDeliveries(1, 2)
  /\ Completed(1)
  /\ LostRace(2)
  /\ hostCalls.completions = 1

\* d1 and d2 are finished deliveries of success-class events that carry
\* different merchant order ids of one existing cart under different event ids
SiblingDeliveries(d1, d2) ==
  /\ d1 # d2
  /\ deliveries[d1].pc = "done" /\ deliveries[d2].pc = "done"
  /\ eventClass(deliveries[d1].eventType) = "success"
  /\ eventClass(deliveries[d2].eventType) = "success"
  /\ deliveries[d1].cartId \in Carts
  /\ deliveries[d1].cartId = deliveries[d2].cartId
  /\ deliveries[d1].merchantOrderId # deliveries[d2].merchantOrderId
  /\ deliveries[d1].eventId # deliveries[d2].eventId

\* Delivery d reported 200 for a completion it performed
ReportedCompletion(d) ==
  /\ deliveries[d].completion = "performed"
  /\ deliveries[d].statusCode = 200

SameDelivery(d1, d2) ==
  /\ d1 # d2
  /\ deliveries[d1].pc = "done" /\ deliveries[d2].pc = "done"
  /\ eventClass(deliveries[d1].eventType) = "success"
  /\ eventClass(deliveries[d2].eventType) = "success"
  /\ deliveries[d1].eventId = deliveries[d2].eventId
  /\ deliveries[d1].merchantOrderId = deliveries[d2].merchantOrderId
  /\ deliveries[d1].merchantOrderId # NoId

\* Delivery d captured the payment of its payment collection
CollectionCaptured(d) ==
  /\ deliveries[d].cartId \in PaymentCollectionIds
  /\ deliveries[d].captureCalls > 0

\* C30: across every interleaving of duplicate success-class deliveries for
\* one cart, orderService.capturePayment is invoked at most once for the
\* resulting order, and in the payment-collection path a payment is captured
\* at most once and only if it matches the merchant order id and is not yet
\* captured.
C30_CapturedAtMostOnce ==
  \A d1, d2 \in Deliveries :
    SameDelivery(d1, d2) =>
      /\ deliveries[d1].cartId \in Carts => hostCalls.captures <= 1
      /\ deliveries[d1].cartId \in PaymentCollectionIds =>
           hostCalls.collectionCaptures <= 1
      /\ \A d \in {d1, d2} :
           CollectionCaptured(d) =>
             paymentCollections[deliveries[d].cartId].merchantOrderId
               = deliveries[d].merchantOrderId

\* Delivery d is a success-class delivery whose order lookup found an order
\* for its cart
FoundOrder(d) == deliveries[d].lookup = "found"

\* C31 (as stated): when an order already exists for the cart, handling a
\* success-class delivery is a no-op: no idempotency record is retrieved or
\* created, cart completion is not invoked, no host state is mutated, and
\* the delivery returns 200.
C31_Original ==
  \A d \in Deliveries :
    FoundOrder(d) =>
      /\ deliveries[d].key = "none"
      /\ deliveries[d].completeCalls = 0
      /\ deliveries[d].captureCalls = 0
      /\ deliveries[d].pc = "done" => deliveries[d].statusCode = 200

\* What a delivery that found the order has done and answered
FoundOrderOutcome ==
  \A d \in Deliveries :
    FoundOrder(d) =>
      /\ deliveries[d].key = "none"
      /\ deliveries[d].completeCalls = 0
      /\ deliveries[d].completion = "none"
      /\ deliveries[d].captureCalls <= 1
      /\ deliveries[d].pc = "done" =>
           /\ deliveries[d].statusCode = 200
           /\ deliveries[d].errCode = ""

\* A step of a delivery that found the order leaves the idempotency
\* records, the payment collections and the completions alone; what it can
\* change of the order is its payment status, to captured, by the one
\* capture it invoked
FoundOrderStep ==
  \A d \in Deliveries :
    (FoundOrder(d) /\ deliveries'[d] # deliveries[d]) =>
      /\ idempotencyKeys' = idempotencyKeys
      /\ paymentCollections' = paymentCollections
      /\ hostCalls'.completions = hostCalls.completions
      /\ hostCalls'.collectionCaptures = hostCalls.collectionCaptures
      /\ hostCalls'.captures # hostCalls.captures =>
           /\ hostCalls'.captures = hostCalls.captures + 1
           /\ deliveries'[d].captureCalls = 1
      /\ orders' # orders =>
           /\ deliveries[d].captureCalls = 1
           /\ orders' = [orders EXCEPT ![deliveries[d].cartId] = Order("captured")]

\* C31 (amended): when the order lookup finds an order for the cart, a
\* success-class delivery retrieves and creates no idempotency record, does
\* not invoke the cart completion and returns 200; the one thing it may
\* still do to the host is capture the payment of that order, once, when the
\* order is not captured yet.
C31_Amended == []FoundOrderOutcome /\ [][FoundOrderStep]_hookVars

\* The storefront completed the cart; the delivery found the order, captured
\* its payment and returned 200
C31_Witness ==
  \E d \in Deliveries :
    /\ FoundOrder(d)
    /\ deliveries[d].pc = "done" /\ deliveries[d].statusCode = 200
    /\ deliveries[d].key = "none" /\ deliveries[d].completeCalls = 0
    /\ deliveries[d].captureCalls = 1
    /\ orders[deliveries[d].cartId] = Order("captured")
    /\ hostCalls.completions = 0

\* Delivery d is finished and its event type is of the failure class, of the
\* refund class or not recognised
LogOnlyDelivery(d) ==
  /\ deliveries[d].pc = "done"
  /\ deliveries[d].eventType \notin SuccessTypes

\* The event type is none of the recognised success, failure, refund types
Unrecognised(eventType) == eventType \notin SuccessTypes \cup FailureTypes \cup RefundTypes

\* Delivery d opened no transaction and called no host service
OnlyLogged(d) ==
  /\ NoHostCall(d)
  /\ deliveries[d].completion = "none"
  /\ deliveries[d].txOrder = NoOrder
  /\ deliveries[d].errCode = ""
  /\ deliveries[d].logged # ""

\* The step that finishes a delivery of these classes is its first one and
\* changes nothing of the host
LogOnlyStep ==
  \A d \in Deliveries :
    (deliveries'[d] # deliveries[d]
       /\ deliveries'[d].eventType \notin SuccessTypes)
      => /\ deliveries[d].pc = "idle" /\ deliveries'[d].pc = "done"
         /\ UNCHANGED <<orders, idempotencyKeys, paymentCollections, hostCalls>>

\* C32 (as stated): for failure-class, refund-class and unrecognised event
\* types handlePaymentHook only logs: it opens no transaction and invokes no
\* idempotency-record creation, cart completion or capture, leaving all host
\* state unchanged, and returns 200 for the failure and refund classes, 204
\* for unrecognised types.
C32_Original ==
  \A d \in Deliveries :
    LogOnlyDelivery(d) =>
      /\ OnlyLogged(d)
      /\ deliveries[d].statusCode =
           (IF Unrecognised(deliveries[d].eventType) THEN 204 ELSE 200)

\* The answers of the deliveries that only log
LogOnlyOutcome ==
  \A d \in Deliveries :
    LogOnlyDelivery(d) =>
      /\ OnlyLogged(d)
      /\ deliveries[d].statusCode =
           (CASE deliveries[d].merchantOrderId = NoId -> 400
              [] Unrecognised(deliveries[d].eventType) -> 204
              [] OTHER -> 200)

\* C32 (amended): for failure-class, refund-class and unrecognised event
\* types handlePaymentHook only logs: it opens no transaction and invokes no
\* idempotency-record creation, cart completion or capture, leaving all host
\* state unchanged; it returns 400 when the payload carries neither
\* merchantOrderId nor merchantTransactionId, otherwise 200 for the failure
\* and refund classes and 204 for unrecognised types.
C32_Amended == []LogOnlyOutcome /\ [][LogOnlyStep]_hookVars

\* A failure-class delivery answered 200 and an unrecognised one 204 while
\* the cart has no order
C32_Witness ==
  \E d1, d2 \in Deliveries :
    /\ LogOnlyDelivery(d1) /\ LogOnlyDelivery(d2)
    /\ deliveries[d1].eventType \in FailureTypes
    /\ deliveries[d1].statusCode = 200
    /\ Unrecognised(deliveries[d2].eventType)
    /\ deliveries[d2].statusCode = 204
    /\ \A c \in Carts : ~orders[c].exists

\* C33: status 409 is a distinct condition: handlePaymentHook returns 409
\* only when the completion failed with a transient reconciliation conflict
\* (serialization failure or unique-constraint collision); a completion
\* failure of another kind (the completion strategy answering with a non-200
\* response code, the cart not being retrievable) is not reported as 409.
C33_ConflictOnly409 ==
  \A d \in Deliveries :
    (deliveries[d].pc = "done" /\ deliveries[d].statusCode = 409)
      => deliveries[d].errCode \in TransientConflictCodes

\* ------------------------------------------------------------------------
\* Claims about the merchant order ids of one provider process

\* Call i returned its merchant order id
ReturnedId(i) == paymentCalls[i].stage = "returned"

\* The ids of calls i and j were built from UUIDs that agree in the 16
\* digits createMerchantOrderId keeps
SameUuidSegment(i, j) ==
  /\ paymentCalls[i].impl = "part002"
  /\ uuidSegment(paymentCalls[i].uuid) = uuidSegment(paymentCalls[j].uuid)

ThreeDecimalCodes == {"BHD", "IQD", "JOD", "KWD", "OMR", "TND"}
ZeroDecimalCodes ==
  {"BIF", "CLP", "DJF", "GNF", "JPY", "KMF", "KRW", "MGA", "PYG", "RWF",
   "UGX", "VND", "VUV", "XAF", "XOF", "XPF"}

\* minor is the amount in units of 1/perUnit, rounded to the nearest whole
\* number, a half going up
RoundedMinor(minor, amount, perUnit) ==
  /\ 2 * minor * 10000 - 10000 <= 2 * amount * perUnit
  /\ 2 * amount * perUnit < 2 * minor * 10000 + 10000

\* the least multiple of 10 that is not below the rounded minor-unit amount
RoundedUpToTen(result, amount) ==
  /\ result % 10 = 0
  /\ \E minor \in (result - 9)..result : RoundedMinor(minor, amount, 1000)

UnitCallAsClaimed(call) ==
  LET code == toUpperCase(call.currency)
  IN IF code \in ThreeDecimalCodes THEN RoundedUpToTen(call.result, call.amount)
     ELSE IF code \in ZeroDecimalCodes
       THEN RoundedMinor(call.result, call.amount, 1)
     ELSE RoundedMinor(call.result, call.amount, 100)

\* C40: for every amount and every 3-decimal currency (BHD, IQD, JOD, KWD,
\* OMR, TND) the minor-unit result of getSmallestUnit is a multiple of 10
\* (the rounded minor-unit amount rounded up to the nearest 10); for all
\* other currencies no such rounding is applied and an unknown currency
\* code is treated as 2-decimal.
C40_ThreeDecimalRoundedUpToTen ==
  \A i \in 1..Len(unitCalls) : UnitCallAsClaimed(unitCalls[i])

\* 1.2345 BHD became 1240 and 1.2345 XYZ became 123
C40_Witness ==
  /\ Len(unitCalls) = 2
  /\ unitCalls[1] = [amount |-> 12345, currency |-> "BHD", result |-> 1240]
  /\ unitCalls[2] = [amount |-> 12345, currency |-> "XYZ", result |-> 123]

\* ------------------------------------------------------------------------
vars ==
  <<retryVars, whVars, cacheVars, hookVars, payVars, tokenVars, idVars, unitVars>>

Init ==
  /\ RetryInit /\ WebhookInit /\ CacheInit /\ HookInit /\ PayInit /\ TokenInit
  /\ IdInit /\ UnitInit

SpecRetry == Init /\ [][RetryNext]_vars

SpecWebhook == Init /\ [][WebhookNext]_vars

SpecCache == Init /\ [][CacheNext]_vars

\* A settled promise runs its callbacks: the .finally callback of a settled
\* fetch is not postponed forever
SpecCacheLive == SpecCache /\ WF_vars(getOrderStatusFinally)

SpecHook == Init /\ [][HookNext]_vars

SpecPay == Init /\ [][PayNext]_vars

SpecToken == Init /\ [][TokenNext]_vars

SpecIds == Init /\ [][IdNext]_vars

SpecUnits == Init /\ [][UnitNext]_vars

====
